---- MODULE Spec2Model ----
(***************************************************************************)
(* Model of autosubmit/config/provenance_tracker.py: ProvEntry (one        *)
(* parameter's source file, line, column, timestamp) and ProvenanceTracker *)
(* (a flat dict from dot-separated parameter paths to ProvEntry, with its  *)
(* export to and import from a nested dict).                               *)
(* Further sections model YAMLParser.load of autosubmit/config/            *)
(* yamlparser.py with the registration of the pickle reducers, the         *)
(* loader's _track_yaml_provenance, and FluxYAML / FluxYAMLGenerator of    *)
(* autosubmit/platforms/wrappers/flux_yaml_generator.py.                   *)
(*                                                                         *)
(* A Python str is a sequence of chunks, each chunk a piece of text that   *)
(* holds no separator, or the separator "." itself; the chunks used are    *)
(* "A", "B", "file" and ".", a prefix code, so two chunk sequences are     *)
(* equal exactly when the texts are.  A Python dict is the sequence of its *)
(* <<key, value>> items in insertion order (keys unique).  Every other     *)
(* Python value is a record [t |-> its type, v |-> its content].           *)
(***************************************************************************)
EXTENDS Integers, Sequences, FiniteSets, TLC

VARIABLES
    provenance_map,   \* ProvenanceTracker.provenance_map of the tracker
    clock,            \* what time.time() returns now
    exported,         \* the nested dict the caller got from export_to_dict
    new_tracker,      \* provenance_map of the fresh tracker the caller imports into
    last,             \* the latest call on the tracker, and what it replaced
    recorded,         \* for each path tracked or imported since creation or
                      \* clear, the latest call that recorded it, and for a
                      \* track call the time.time() of the call
    pc,               \* where the caller is: "tracking", "exported", "imported"
    entry,            \* a ProvEntry object held by the caller
    data,             \* a mapping held by the caller (to_dict's result, from_dict's input)
    restored,         \* what ProvEntry.from_dict returned
    raised,           \* the exception the latest from_dict call raised, "" for none
    e_op,             \* the latest ProvEntry call
    heap,             \* the objects alive: for each object id, the object
    held,             \* None, or the entry a caller got from get and kept:
                      \* its path, its object, its fields when it was got
    tree,             \* None, or the dict object export_to_dict returned
    before,           \* what the tracker held when export_to_dict was called
    o_op,             \* the latest call of the caller that keeps objects
    has_yaml_provenance,  \* _HAS_YAML_PROVENANCE; None before yamlparser
                          \* is imported
    loaded,           \* the latest YAMLParser.load call: its stream, what
                      \* the loaders did, its result
    wrapper_registry, \* yaml_provenance._wrapper._wrapper_registry: for each
                      \* name, the class made for it
    wrapper_classes,  \* the classes yamlparser imports by name:
                      \* BoolWithProvenance, NoneWithProvenance,
                      \* ListWithProvenance, DictWithProvenance
    as_conf,          \* the AutosubmitConfig: its track_provenance and
                      \* its provenance_tracker
    tracked,          \* the latest _track_yaml_provenance call: its data
                      \* and its file_path
    resources,        \* FluxYAML.resources
    tasks,            \* FluxYAML.tasks
    f_last            \* the latest FluxYAML or FluxYAMLGenerator call: its
                      \* arguments, what it did, what the lists held

vars == <<provenance_map, clock, exported, new_tracker, last, recorded, pc,
          entry, data, restored, raised, e_op,
          heap, held, tree, before, o_op, has_yaml_provenance, loaded,
          wrapper_registry, wrapper_classes, as_conf, tracked, resources, tasks, f_last>>

tracker_vars == <<provenance_map, exported, new_tracker, last, recorded, pc>>
entry_vars == <<entry, data, restored, raised, e_op>>
object_vars == <<heap, held, tree, before, o_op>>
parser_vars == <<has_yaml_provenance, loaded, wrapper_registry, wrapper_classes>>
loader_vars == <<as_conf, tracked>>
flux_vars == <<resources, tasks, f_last>>

(* ------------------------------ bounds -------------------------------- *)

MaxEntries == 2      \* most parameters a tracker holds
MaxClock == 1        \* time.time() runs from 0 to MaxClock

(* --------------------------- Python values ---------------------------- *)

None == [t |-> "None", v |-> 0]
PyInt(n) == [t |-> "int", v |-> n]
PyFloat(n) == [t |-> "float", v |-> n]
PyStr(s) == [t |-> "str", v |-> s]
PyPath(s) == [t |-> "Path", v |-> s]
PyDict(items) == [t |-> "dict", v |-> items]
PyBool(b) == [t |-> "bool", v |-> b]

SEP == "."
KEY_FILE == <<"file">>
KEY_LINE == <<"line">>
KEY_COL == <<"col">>
KEY_TIMESTAMP == <<"timestamp">>

(* key in d *)
dict_contains(d, k) == \E i \in 1..Len(d) : d[i][1] = k

(* d[k], for a key that is in d *)
dict_getitem(d, k) == d[CHOOSE i \in 1..Len(d) : d[i][1] = k][2]

(* d.get(k): None when the key is missing *)
dict_get(d, k) == IF dict_contains(d, k) THEN dict_getitem(d, k) ELSE None

(* d[k] = v: an existing key keeps its place, a new key goes last *)
dict_setitem(d, k, v) ==
    IF dict_contains(d, k)
    THEN [i \in 1..Len(d) |-> IF d[i][1] = k THEN <<k, v>> ELSE d[i]]
    ELSE Append(d, <<k, v>>)

dict_keys(d) == {d[i][1] : i \in 1..Len(d)}

(* repr(x) as one piece of text; str(x) of a value that is not a str *)
RECURSIVE repr(_)
RECURSIVE repr_items(_)
RECURSIVE repr_text(_)
repr_text(s) == IF s = <<>> THEN "" ELSE Head(s) \o repr_text(Tail(s))
repr_items(d) ==
    IF d = <<>> THEN ""
    ELSE "'" \o repr_text(Head(d)[1]) \o "': " \o repr(Head(d)[2])
         \o (IF Len(d) > 1 THEN ", " ELSE "") \o repr_items(Tail(d))
repr(x) ==
    CASE x.t = "None" -> "None"
      [] x.t = "int" -> ToString(x.v)
      [] x.t = "float" -> ToString(x.v) \o ".0"
      [] x.t = "str" -> "'" \o repr_text(x.v) \o "'"
      [] x.t = "Path" -> "PosixPath('" \o repr_text(x.v) \o "')"
      [] x.t = "dict" -> "{" \o repr_items(x.v) \o "}"

(* str(x): a str is itself, a Path is its text, anything else its repr *)
str(x) ==
    CASE x.t = "str" -> x
      [] x.t = "Path" -> PyStr(x.v)
      [] OTHER -> PyStr(<<repr(x)>>)

(* s.split("."): the pieces between separators; "" gives [""] *)
RECURSIVE split(_)
split(s) ==
    IF \A i \in 1..Len(s) : s[i] # SEP THEN <<s>>
    ELSE LET i == CHOOSE j \in 1..Len(s) :
                      s[j] = SEP /\ \A k \in 1..(j - 1) : s[k] # SEP
         IN <<SubSeq(s, 1, i - 1)>> \o split(SubSeq(s, i + 1, Len(s)))

(* ------------------------------ ProvEntry ----------------------------- *)

(* ProvEntry.__init__ at time now *)
ProvEntry(file, line, col, timestamp, now) ==
    [file |-> str(file),
     line |-> line,
     col |-> col,
     timestamp |-> IF timestamp # None THEN timestamp ELSE PyFloat(now)]

(* a to_dict that tests `if self.line:` and `if self.col:` *)
to_dict_truthy(self) ==
    << <<KEY_FILE, self.file>>, <<KEY_TIMESTAMP, self.timestamp>> >>
    \o (IF self.line # None /\ self.line.v # 0
        THEN << <<KEY_LINE, self.line>> >> ELSE <<>>)
    \o (IF self.col # None /\ self.col.v # 0
        THEN << <<KEY_COL, self.col>> >> ELSE <<>>)

(* a to_dict that writes line and col always, None for an absent one *)
to_dict_nulls(self) ==
    << <<KEY_FILE, self.file>>, <<KEY_TIMESTAMP, self.timestamp>>,
       <<KEY_LINE, self.line>>, <<KEY_COL, self.col>> >>

(* ProvEntry.to_dict *)
to_dict(self) ==
    << <<KEY_FILE, self.file>>, <<KEY_TIMESTAMP, self.timestamp>> >>
    \o (IF self.line # None THEN << <<KEY_LINE, self.line>> >> ELSE <<>>)
    \o (IF self.col # None THEN << <<KEY_COL, self.col>> >> ELSE <<>>)

NoEntry == [file |-> None, line |-> None, col |-> None, timestamp |-> None]

(* a from_dict that reads the file with data.get("file") *)
from_dict_get_file(d, now) ==
    [exc |-> "",
     val |-> ProvEntry(dict_get(d, KEY_FILE), dict_get(d, KEY_LINE),
                       dict_get(d, KEY_COL), dict_get(d, KEY_TIMESTAMP), now)]

(* a from_dict that reads the line with data["line"] *)
from_dict_needs_line(d, now) ==
    IF ~dict_contains(d, KEY_FILE) \/ ~dict_contains(d, KEY_LINE)
    THEN [exc |-> "KeyError", val |-> NoEntry]
    ELSE [exc |-> "",
          val |-> ProvEntry(dict_getitem(d, KEY_FILE), dict_getitem(d, KEY_LINE),
                            dict_get(d, KEY_COL), dict_get(d, KEY_TIMESTAMP), now)]

(* ProvEntry.from_dict at time now: [exc, val], val meaningful when exc = "" *)
from_dict(d, now) ==
    IF ~dict_contains(d, KEY_FILE)
    THEN [exc |-> "KeyError", val |-> NoEntry]
    ELSE [exc |-> "",
          val |-> ProvEntry(dict_getitem(d, KEY_FILE), dict_get(d, KEY_LINE),
                            dict_get(d, KEY_COL), dict_get(d, KEY_TIMESTAMP), now)]

(* -------------------------- ProvenanceTracker ------------------------- *)

(* a track that fills the fields the call leaves out from the entry already
   there *)
track_merge(pm, param_path, file, line, col, now) ==
    LET old == dict_getitem(pm, param_path) IN
    IF ~dict_contains(pm, param_path)
    THEN dict_setitem(pm, param_path, ProvEntry(file, line, col, None, now))
    ELSE dict_setitem(pm, param_path,
                      ProvEntry(file, IF line # None THEN line ELSE old.line,
                                IF col # None THEN col ELSE old.col, None, now))

(* a track that keeps the entry already there and adds another *)
track_append(pm, param_path, file, line, col, now) ==
    Append(pm, <<param_path, ProvEntry(file, line, col, None, now)>>)

(* a track that leaves an entry already there its timestamp *)
track_keep_timestamp(pm, param_path, file, line, col, now) ==
    dict_setitem(pm, param_path,
                 ProvEntry(file, line, col,
                           IF dict_contains(pm, param_path)
                           THEN dict_getitem(pm, param_path).timestamp
                           ELSE None, now))

(* ProvenanceTracker.track at time now: the new provenance_map *)
track(pm, param_path, file, line, col, now) ==
    dict_setitem(pm, param_path, ProvEntry(file, line, col, None, now))

(* ProvenanceTracker.get: the entry, or None *)
get(pm, param_path) == dict_get(pm, param_path)

(* a __contains__ that tests `param_path and param_path in ...` *)
contains_truthy(pm, param_path) ==
    param_path # <<>> /\ dict_contains(pm, param_path)

(* ProvenanceTracker.__contains__ *)
contains(pm, param_path) == dict_contains(pm, param_path)

(* ProvenanceTracker.__len__ *)
len(pm) == Len(pm)

(* a clear that removes the oldest entry only *)
clear_oldest(pm) == IF pm = <<>> THEN <<>> ELSE Tail(pm)

(* ProvenanceTracker.clear: the new provenance_map *)
clear(pm) == <<>>

(* an export that makes a new dict at every key on the way, whether the
   key is there or not *)
RECURSIVE export_insert_fresh(_, _, _)
export_insert_fresh(current, keys, leaf) ==
    IF Len(keys) = 1
    THEN dict_setitem(current, keys[1], leaf)
    ELSE dict_setitem(current, Head(keys),
                      PyDict(export_insert_fresh(<<>>, Tail(keys), leaf)))

(* an export that sets every leaf in the top-level dict, at the last key of
   its path *)
export_insert_unnested(current, keys, leaf) ==
    dict_setitem(current, keys[Len(keys)], leaf)

(* an export that sets str(leaf) where the leaf goes *)
RECURSIVE export_insert_text(_, _, _)
export_insert_text(current, keys, leaf) ==
    IF Len(keys) = 1
    THEN dict_setitem(current, keys[1], str(leaf))
    ELSE LET key == Head(keys) IN
         IF ~dict_contains(current, key)
         THEN dict_setitem(current, key,
                           PyDict(export_insert_text(<<>>, Tail(keys), leaf)))
         ELSE IF dict_getitem(current, key).t # "dict"
         THEN current
         ELSE dict_setitem(current, key,
                           PyDict(export_insert_text(dict_getitem(current, key).v,
                                                     Tail(keys), leaf)))

(* the inner loop of export_to_dict breaks: on the walk of keys[:-1] down
   from current, a key is there with a value that is no dict *)
RECURSIVE export_breaks(_, _)
export_breaks(current, keys) ==
    IF Len(keys) = 1 THEN FALSE
    ELSE LET key == Head(keys) IN
         IF ~dict_contains(current, key) THEN FALSE
         ELSE IF dict_getitem(current, key).t # "dict" THEN TRUE
         ELSE export_breaks(dict_getitem(current, key).v, Tail(keys))

(* The inner loop of export_to_dict and its else branch, for one path:
   walk keys[:-1] down from current, creating missing levels, and set the
   leaf at keys[-1]; a break leaves everything as it is. *)
RECURSIVE export_insert(_, _, _)
export_insert(current, keys, leaf) ==
    IF Len(keys) = 1
    THEN dict_setitem(current, keys[1], leaf)
    ELSE LET key == Head(keys) IN
         IF ~dict_contains(current, key)
         THEN dict_setitem(current, key,
                           PyDict(export_insert(<<>>, Tail(keys), leaf)))
         ELSE IF dict_getitem(current, key).t # "dict"
         THEN current
         ELSE dict_setitem(current, key,
                           PyDict(export_insert(dict_getitem(current, key).v,
                                                Tail(keys), leaf)))

(* The outer loop of export_to_dict over provenance_map.items(), from
   result *)
RECURSIVE export_loop(_, _)
export_loop(items, result) ==
    IF items = <<>> THEN result
    ELSE export_loop(Tail(items),
                     export_insert(result, split(Head(items)[1]),
                                   PyDict(to_dict(Head(items)[2]))))

(* ProvenanceTracker.export_to_dict: the nested dict *)
export_to_dict(pm) == export_loop(pm, <<>>)

(* a param_path that is the key alone, whatever the prefix *)
param_path_key_only(prefix, key) == key

(* param_path = f"{prefix}.{key}" if prefix else key *)
param_path_of(prefix, key) ==
    IF prefix # <<>> THEN prefix \o <<SEP>> \o key ELSE key

(* an import that records a value that is no dict as the file of an entry *)
import_non_dict_recorded(pm, param_path, value, now) ==
    dict_setitem(pm, param_path, ProvEntry(value, None, None, None, now))

(* import_from_dict on a value that is not a dict: ignored *)
import_non_dict(pm, param_path, value, now) == pm

(* ProvenanceTracker.import_from_dict at time now: [pm, exc], the new
   provenance_map and the exception that ended the call ("" for none) *)
RECURSIVE import_from_dict(_, _, _, _)
import_from_dict(pm, nested_dict, prefix, now) ==
    IF nested_dict = <<>> THEN [pm |-> pm, exc |-> ""]
    ELSE LET key == Head(nested_dict)[1]
             value == Head(nested_dict)[2]
             param_path == param_path_of(prefix, key)
             step ==
                 IF value.t = "dict"
                 THEN IF dict_contains(value.v, KEY_FILE)
                      THEN LET made == from_dict(value.v, now) IN
                           IF made.exc # "" THEN [pm |-> pm, exc |-> made.exc]
                           ELSE [pm |-> dict_setitem(pm, param_path, made.val),
                                 exc |-> ""]
                      ELSE import_from_dict(pm, value.v, param_path, now)
                 ELSE [pm |-> import_non_dict(pm, param_path, value, now),
                       exc |-> ""]
         IN IF step.exc # "" THEN step
            ELSE import_from_dict(step.pm, Tail(nested_dict), prefix, now)

(* ------------------------- the caller's inputs ------------------------ *)

Paths ==
    { <<>>, <<"A">>, <<"A", SEP, "B">>, <<SEP, "A">>, <<"A", SEP, "file">> }

(* the (file, line, col) of the track calls: a str with line and col
   given, a Path with neither *)
Sources ==
    { <<PyStr(<<"/a.yml">>), PyInt(5), PyInt(7)>>,
      <<PyPath(<<"/b.yml">>), None, None>> }

LEAF_FULL ==
    PyDict(<< <<KEY_FILE, PyStr(<<"/a.yml">>)>>, <<KEY_LINE, PyInt(5)>>,
              <<KEY_COL, PyInt(7)>>, <<KEY_TIMESTAMP, PyFloat(0)>> >>)
LEAF_NO_TIMESTAMP ==
    PyDict(<< <<KEY_FILE, PyStr(<<"/b.yml">>)>> >>)
LEAF_WITH_CHILD ==
    PyDict(<< <<KEY_FILE, PyStr(<<"/a.yml">>)>>, <<KEY_LINE, PyInt(5)>>,
              <<KEY_COL, PyInt(7)>>, <<KEY_TIMESTAMP, PyFloat(0)>>,
              <<<<"B">>, LEAF_FULL>> >>)

(* The nested dicts given to import_from_dict: well-formed ones, and ones
   with non-dict values, dicts without "file", empty dicts, an empty key. *)
Trees ==
    { << <<<<"A">>, PyDict(<< <<<<"B">>, LEAF_FULL>> >>)>> >>,
      << <<<<"A">>, LEAF_NO_TIMESTAMP>> >>,
      << <<<<"A">>, PyStr(<<"A">>)>>, <<<<>>, LEAF_FULL>> >>,
      << <<<<"A">>, PyDict(<< <<<<"B">>, None>>, <<<<>>, LEAF_NO_TIMESTAMP>>,
                              <<<<"A">>, PyDict(<<>>)>> >>)>> >>,
      << <<<<"A">>, PyDict(<< <<<<"B">>, PyDict(<<>>)>>,
                              <<KEY_LINE, PyInt(5)>> >>)>> >>,
      << <<<<"A">>, LEAF_WITH_CHILD>> >>,
      << <<<<>>, PyDict(<< <<<<"A">>, LEAF_FULL>> >>)>>, <<<<"A">>, PyInt(3)>> >> }

(* ------------------------------ tracker ------------------------------- *)

(* prev: None, or what the call found: for track the line of the entry it
   replaced, for clear the number of entries it removed *)
NoCall == [op |-> "", path |-> <<>>, tree |-> <<>>, prev |-> None, exc |-> ""]
Replaced(line) == [t |-> "replaced", v |-> line]

InitEntry ==
    /\ entry = NoEntry
    /\ data = <<>>
    /\ restored = NoEntry
    /\ raised = ""
    /\ e_op = ""

InitTracker ==
    /\ provenance_map = <<>>
    /\ exported = None
    /\ new_tracker = <<>>
    /\ last = NoCall
    /\ recorded = <<>>
    /\ pc = "tracking"

(* a reference to the object with the id n *)
Ref(n) == [t |-> "ref", v |-> n]

(* the id of the dict that ProvenanceTracker.__init__ makes and the tracker
   keeps as self.provenance_map *)
PROVENANCE_MAP == 1

NoObjectCall == [op |-> "", path |-> <<>>]

InitObjects ==
    /\ heap = (PROVENANCE_MAP :> PyDict(<<>>))
    /\ held = None
    /\ tree = None
    /\ before = <<>>
    /\ o_op = NoObjectCall

NoLoad == [stream |-> None, load_yaml |-> None, reducers |-> None,
           ruamel |-> None, result |-> None]

InitParser ==
    /\ has_yaml_provenance = None
    /\ loaded = NoLoad
    /\ wrapper_registry = <<>>
    /\ wrapper_classes = <<>>

(* the AutosubmitConfig as its __init__ leaves it: tracking off, no
   tracker *)
NoTracked == [data |-> None, file_path |-> None]

InitLoader ==
    /\ as_conf = [track_provenance |-> FALSE, provenance_tracker |-> None]
    /\ tracked = NoTracked

NoFluxCall == [op |-> "", args |-> [none |-> 0], result |-> None,
               resources |-> <<>>, tasks |-> <<>>]

(* FluxYAML.__init__ *)
InitFlux ==
    /\ resources = <<>>
    /\ tasks = <<>>
    /\ f_last = NoFluxCall

Init ==
    /\ clock = 0
    /\ InitTracker
    /\ InitEntry
    /\ InitObjects
    /\ InitParser
    /\ InitLoader
    /\ InitFlux

(* time passes *)
Tick ==
    /\ clock < MaxClock
    /\ clock' = clock + 1
    /\ UNCHANGED <<tracker_vars, entry_vars, object_vars, parser_vars,
                 loader_vars, flux_vars>>

(* tracker.track(param_path, file, line, col) *)
Track(param_path, file, line, col) ==
    /\ pc = "tracking"
    /\ contains(provenance_map, param_path) \/ len(provenance_map) < MaxEntries
    /\ provenance_map' = track(provenance_map, param_path, file, line, col, clock)
    /\ last' = [NoCall EXCEPT !.op = "track", !.path = param_path,
                              !.prev = IF contains(provenance_map, param_path)
                                       THEN Replaced(get(provenance_map, param_path).line)
                                       ELSE None]
    /\ recorded' = [p \in DOMAIN recorded \cup {param_path} |->
                        IF p = param_path
                        THEN [by |-> "track", file |-> file, line |-> line,
                              col |-> col, at |-> PyFloat(clock)]
                        ELSE recorded[p]]
    /\ UNCHANGED <<clock, exported, new_tracker, pc, entry_vars, object_vars, parser_vars,
                 loader_vars, flux_vars>>

(* tracker.clear() *)
Clear ==
    /\ pc = "tracking"
    /\ provenance_map' = clear(provenance_map)
    /\ last' = [NoCall EXCEPT !.op = "clear",
                              !.prev = Replaced(PyInt(len(provenance_map)))]
    /\ recorded' = <<>>
    /\ UNCHANGED <<clock, exported, new_tracker, pc, entry_vars, object_vars, parser_vars,
                 loader_vars, flux_vars>>

(* the paths of the leaves (dicts with "file") of a nested dict, each the
   param_path import_from_dict builds for it *)
RECURSIVE leaf_paths(_, _)
leaf_paths(nested_dict, prefix) ==
    UNION { LET value == nested_dict[i][2]
                param_path == param_path_of(prefix, nested_dict[i][1])
            IN IF value.t # "dict" THEN {}
               ELSE IF dict_contains(value.v, KEY_FILE) THEN {param_path}
               ELSE leaf_paths(value.v, param_path)
            : i \in 1..Len(nested_dict) }

(* tracker.import_from_dict(nested_dict) *)
Import(nested_dict) ==
    /\ pc = "tracking"
    /\ LET done == import_from_dict(provenance_map, nested_dict, <<>>, clock) IN
       /\ len(done.pm) <= MaxEntries
       /\ provenance_map' = done.pm
       /\ last' = [NoCall EXCEPT !.op = "import_from_dict", !.tree = nested_dict,
                                 !.exc = done.exc]
       /\ recorded' = [p \in DOMAIN recorded \cup leaf_paths(nested_dict, <<>>) |->
                           IF p \in leaf_paths(nested_dict, <<>>)
                           THEN [by |-> "import_from_dict", file |-> None,
                                 line |-> None, col |-> None, at |-> None]
                           ELSE recorded[p]]
    /\ UNCHANGED <<clock, exported, new_tracker, pc, entry_vars, object_vars, parser_vars,
                 loader_vars, flux_vars>>

(* exported = tracker.export_to_dict() *)
Export ==
    /\ pc = "tracking"
    /\ exported' = PyDict(export_to_dict(provenance_map))
    /\ pc' = "exported"
    /\ last' = [NoCall EXCEPT !.op = "export_to_dict"]
    /\ UNCHANGED <<provenance_map, clock, new_tracker, recorded, entry_vars, object_vars, parser_vars,
                 loader_vars, flux_vars>>

(* new_tracker = ProvenanceTracker(); new_tracker.import_from_dict(exported) *)
ImportExported ==
    /\ pc = "exported"
    /\ LET done == import_from_dict(<<>>, exported.v, <<>>, clock) IN
       /\ new_tracker' = done.pm
       /\ last' = [NoCall EXCEPT !.op = "round_trip", !.exc = done.exc]
    /\ pc' = "imported"
    /\ UNCHANGED <<provenance_map, clock, exported, recorded, entry_vars, object_vars, parser_vars,
                 loader_vars, flux_vars>>

(* the caller lets go of the exported dict and of the fresh tracker *)
Drop ==
    /\ pc \in {"exported", "imported"}
    /\ pc' = "tracking"
    /\ exported' = None
    /\ new_tracker' = <<>>
    /\ UNCHANGED <<provenance_map, clock, last, recorded, entry_vars, object_vars, parser_vars,
                 loader_vars, flux_vars>>

Next ==
    \/ Tick
    \/ \E param_path \in Paths, src \in Sources :
           Track(param_path, src[1], src[2], src[3])
    \/ Clear
    \/ \E nested_dict \in Trees : Import(nested_dict)
    \/ Export
    \/ ImportExported
    \/ Drop

Spec == Init /\ [][Next]_vars

(* ------------------------------ entries ------------------------------- *)

(* the arguments of ProvEntry(...): a str and a Path; absent, negative,
   zero and positive line and col; an absent and an explicit timestamp *)
EntryFiles == { PyStr(<<"/a.yml">>), PyPath(<<"/b.yml">>) }
EntryLines == { None, PyInt(-1), PyInt(0), PyInt(5) }
EntryCols == { None, PyInt(0), PyInt(7) }
EntryTimestamps == { None, PyFloat(0), PyFloat(7) }

(* the mappings given to ProvEntry.from_dict *)
Mappings ==
    { <<>>,
      << <<KEY_LINE, PyInt(5)>> >>,
      << <<KEY_LINE, PyInt(10)>>, <<KEY_TIMESTAMP, PyFloat(7)>> >>,
      << <<KEY_LINE, PyInt(5)>>, <<KEY_COL, PyInt(7)>>, <<KEY_TIMESTAMP, PyFloat(0)>> >>,
      << <<KEY_FILE, PyStr(<<"/a.yml">>)>> >>,
      << <<KEY_FILE, PyStr(<<"/a.yml">>)>>, <<KEY_LINE, PyInt(10)>> >>,
      << <<KEY_FILE, PyStr(<<"/a.yml">>)>>, <<KEY_LINE, PyInt(0)>>,
         <<KEY_COL, PyInt(7)>> >>,
      << <<KEY_FILE, PyStr(<<"/a.yml">>)>>, <<KEY_TIMESTAMP, None>> >>,
      << <<KEY_FILE, PyPath(<<"/b.yml">>)>>, <<KEY_LINE, PyInt(5)>>,
         <<KEY_COL, PyInt(7)>>, <<KEY_TIMESTAMP, PyFloat(7)>> >> }

(* entry = ProvEntry(file, line, col, timestamp) *)
NewEntry(file, line, col, timestamp) ==
    /\ entry' = ProvEntry(file, line, col, timestamp, clock)
    /\ data' = <<>>
    /\ restored' = NoEntry
    /\ raised' = ""
    /\ e_op' = "init"
    /\ UNCHANGED <<clock, tracker_vars,
                 object_vars, parser_vars,
                 loader_vars, flux_vars>>

(* data = entry.to_dict() *)
ToDict ==
    /\ e_op = "init"
    /\ data' = to_dict(entry)
    /\ e_op' = "to_dict"
    /\ UNCHANGED <<clock, entry, restored, raised, tracker_vars,
                 object_vars, parser_vars,
                 loader_vars, flux_vars>>

(* restored = ProvEntry.from_dict(data), data being entry.to_dict() *)
FromDictOfToDict ==
    /\ e_op = "to_dict"
    /\ LET made == from_dict(data, clock) IN
       /\ restored' = made.val
       /\ raised' = made.exc
    /\ e_op' = "round_trip"
    /\ UNCHANGED <<clock, entry, data, tracker_vars,
                 object_vars, parser_vars,
                 loader_vars, flux_vars>>

(* restored = ProvEntry.from_dict(d) *)
FromDict(d) ==
    /\ data' = d
    /\ LET made == from_dict(d, clock) IN
       /\ restored' = made.val
       /\ raised' = made.exc
    /\ entry' = NoEntry
    /\ e_op' = "from_dict"
    /\ UNCHANGED <<clock, tracker_vars,
                 object_vars, parser_vars,
                 loader_vars, flux_vars>>

NextEntry ==
    \/ Tick
    \/ \E file \in EntryFiles, line \in EntryLines, col \in EntryCols,
          timestamp \in EntryTimestamps :
           NewEntry(file, line, col, timestamp)
    \/ ToDict
    \/ FromDictOfToDict
    \/ \E d \in Mappings : FromDict(d)

SpecEntry == Init /\ [][NextEntry]_vars

(* ------------------------------ objects ------------------------------- *)

(* The tracker with its objects told apart: heap maps the id of every
   object alive to the object, a ProvEntry [t |-> "ProvEntry", v |-> its
   attributes] or a dict whose values are references or str, int, float,
   None.  A name bound to an object holds Ref(its id). *)

EntryObject(fields) == [t |-> "ProvEntry", v |-> fields]

(* the id a new object gets: one that no object alive has *)
new(h) == CHOOSE n \in 1..(Cardinality(DOMAIN h) + 1) : n \notin DOMAIN h

(* ids, and after them the ids the values of items refer to, in turn, that
   are not among them yet *)
RECURSIVE add_refs(_, _)
add_refs(ids, items) ==
    IF items = <<>> THEN ids
    ELSE add_refs(IF Head(items)[2].t = "ref"
                     /\ \A k \in 1..Len(ids) : ids[k] # Head(items)[2].v
                  THEN Append(ids, Head(items)[2].v) ELSE ids,
                  Tail(items))

(* the ids of the objects that can be reached from ids, from its i-th on,
   each once, in the order they are met *)
RECURSIVE reach(_, _, _)
reach(h, ids, i) ==
    IF i > Len(ids) THEN ids
    ELSE reach(h, IF h[ids[i]].t = "dict" THEN add_refs(ids, h[ids[i]].v) ELSE ids,
               i + 1)

(* The heap once the objects nothing refers to are freed; roots are the
   references the caller holds, the tracker's dict is held by the tracker.
   The objects left are numbered in the order they are reached, an id being
   a name only: [heap, id], id the new id of each object left. *)
collect(h, roots) ==
    LET ids == reach(h, add_refs(<<PROVENANCE_MAP>>,
                                 [k \in 1..Len(roots) |-> <<k, roots[k]>>]), 1)
        id == [n \in {ids[k] : k \in 1..Len(ids)} |->
                  CHOOSE k \in 1..Len(ids) : ids[k] = n]
        moved(x) == IF x.t = "ref" THEN Ref(id[x.v]) ELSE x
    IN [heap |-> [k \in 1..Len(ids) |->
                     IF h[ids[k]].t = "dict"
                     THEN PyDict([m \in 1..Len(h[ids[k]].v) |->
                                     <<h[ids[k]].v[m][1], moved(h[ids[k]].v[m][2])>>])
                     ELSE h[ids[k]]],
        id |-> id]

(* obj[key] = value on a dict; setattr(obj, key, value) on a ProvEntry, whose
   attributes are its __dict__ *)
setitem_obj(h, id, key, value) ==
    [h EXCEPT ![id] = IF @.t = "dict"
                      THEN PyDict(dict_setitem(@.v, key, value))
                      ELSE [t |-> @.t, v |-> [@.v EXCEPT ![key[1]] = value]]]

(* a track that assigns the attributes of the entry already at the path *)
track_in_place(h, param_path, file, line, col, now) ==
    IF dict_contains(h[PROVENANCE_MAP].v, param_path)
    THEN [h EXCEPT ![dict_getitem(h[PROVENANCE_MAP].v, param_path).v] =
                       EntryObject(ProvEntry(file, line, col, None, now))]
    ELSE [h EXCEPT ![PROVENANCE_MAP] =
                       PyDict(Append(@.v, <<param_path, Ref(new(h))>>))]
         @@ (new(h) :> EntryObject(ProvEntry(file, line, col, None, now)))

(* ProvenanceTracker.track: a new ProvEntry object, bound to the path *)
track_obj(h, param_path, file, line, col, now) ==
    setitem_obj(h @@ (new(h) :> EntryObject(ProvEntry(file, line, col, None, now))),
                PROVENANCE_MAP, param_path, Ref(new(h)))

(* ProvenanceTracker.get: a reference to the entry, or None *)
get_obj(h, param_path) == dict_get(h[PROVENANCE_MAP].v, param_path)

(* ProvenanceTracker.clear: provenance_map.clear(), on the dict itself *)
clear_obj(h) == [h EXCEPT ![PROVENANCE_MAP] = PyDict(<<>>)]

(* the assignments of import_from_dict, provenance_map[param_path] =
   ProvEntry.from_dict(value), for the (path, entry) items in turn *)
RECURSIVE import_assign(_, _)
import_assign(h, items) ==
    IF items = <<>> THEN h
    ELSE import_assign(setitem_obj(h @@ (new(h) :> EntryObject(Head(items)[2])),
                                   PROVENANCE_MAP, Head(items)[1], Ref(new(h))),
                       Tail(items))

(* ProvenanceTracker.import_from_dict: each leaf becomes a new ProvEntry *)
import_obj(h, nested_dict, now) ==
    import_assign(h, import_from_dict(<<>>, nested_dict, <<>>, now).pm)

(* a to_dict that returns the entry's own __dict__ *)
to_dict_vars(h, prov) == [heap |-> h, ref |-> Ref(prov)]

(* ProvEntry.to_dict: result = {...}, a new dict *)
to_dict_obj(h, prov) ==
    [heap |-> h @@ (new(h) :> PyDict(to_dict(h[prov].v))), ref |-> Ref(new(h))]

(* The inner loop of export_to_dict and its else branch for the entry prov,
   from the dict current: the heap afterwards *)
RECURSIVE export_insert_obj(_, _, _, _)
export_insert_obj(h, current, keys, prov) ==
    IF Len(keys) = 1
    THEN LET leaf == to_dict_obj(h, prov)
         IN setitem_obj(leaf.heap, current, keys[1], leaf.ref)
    ELSE LET key == Head(keys) IN
         IF ~dict_contains(h[current].v, key)
         THEN export_insert_obj(
                  setitem_obj(h @@ (new(h) :> PyDict(<<>>)), current, key,
                              Ref(new(h))),
                  new(h), Tail(keys), prov)
         ELSE LET value == dict_getitem(h[current].v, key) IN
              IF value.t # "ref" \/ h[value.v].t # "dict" THEN h
              ELSE export_insert_obj(h, value.v, Tail(keys), prov)

(* The outer loop of export_to_dict, into the dict result *)
RECURSIVE export_loop_obj(_, _, _)
export_loop_obj(h, items, result) ==
    IF items = <<>> THEN h
    ELSE export_loop_obj(export_insert_obj(h, result, split(Head(items)[1]),
                                           Head(items)[2].v),
                         Tail(items), result)

(* ProvenanceTracker.export_to_dict: result = {}, a new dict, returned *)
export_obj(h) ==
    [heap |-> export_loop_obj(h @@ (new(h) :> PyDict(<<>>)),
                              h[PROVENANCE_MAP].v, new(h)),
     ref |-> Ref(new(h))]

(* the object that following keys from the dict id reaches, 0 for none *)
RECURSIVE walk_obj(_, _, _)
walk_obj(h, id, keys) ==
    IF keys = <<>> THEN id
    ELSE IF h[id].t # "dict" \/ ~dict_contains(h[id].v, Head(keys)) THEN 0
    ELSE IF dict_getitem(h[id].v, Head(keys)).t # "ref" THEN 0
    ELSE walk_obj(h, dict_getitem(h[id].v, Head(keys)).v, Tail(keys))

(* what the tracker answers: for each path in turn, the attributes of its
   entry *)
index_view(h) ==
    [i \in 1..Len(h[PROVENANCE_MAP].v) |->
        <<h[PROVENANCE_MAP].v[i][1], h[h[PROVENANCE_MAP].v[i][2].v].v>>]

(* the paths and nested dicts of the caller that keeps objects *)
ObjPaths == { <<"A">>, <<"A", SEP, "B">>, <<"B">> }
ObjTrees ==
    { << <<<<"A">>, PyDict(<< <<<<"B">>, LEAF_FULL>> >>)>> >>,
      << <<<<"A">>, LEAF_NO_TIMESTAMP>> >> }
NEW_KEY == <<"NEW_KEY">>
MODIFIED == PyStr(<<"/modified/path.yml">>)
NEW_LEAF == PyDict(<< <<KEY_FILE, PyStr(<<"/new/file.yml">>)>> >>)

(* the reference the caller keeps in an entry it holds, None for none *)
ref_of(kept) == IF kept = None THEN None ELSE kept.ref

(* the call leaves the heap h, and the caller with the entry kept and the
   dict result *)
Leaves(h, kept, result) ==
    LET left == collect(h, <<ref_of(kept), result>>) IN
    /\ heap' = left.heap
    /\ held' = IF kept = None THEN None
               ELSE [kept EXCEPT !.ref = Ref(left.id[kept.ref.v])]
    /\ tree' = IF result = None THEN None ELSE Ref(left.id[result.v])

(* tracker.track(param_path, file, line, col) *)
TrackObj(param_path, file, line, col) ==
    /\ tree = None
    /\ \/ dict_contains(heap[PROVENANCE_MAP].v, param_path)
       \/ Len(heap[PROVENANCE_MAP].v) < MaxEntries
    /\ Leaves(track_obj(heap, param_path, file, line, col, clock), held, tree)
    /\ o_op' = [op |-> "track", path |-> param_path]
    /\ UNCHANGED <<before, clock, tracker_vars, entry_vars, parser_vars,
                 loader_vars, flux_vars>>

(* held = tracker.get(param_path) *)
GetObj(param_path) ==
    /\ tree = None
    /\ LET r == get_obj(heap, param_path) IN
       Leaves(heap,
              IF r = None THEN None
              ELSE [path |-> param_path, ref |-> r, fields |-> heap[r.v].v],
              tree)
    /\ o_op' = [op |-> "get", path |-> param_path]
    /\ UNCHANGED <<before, clock, tracker_vars, entry_vars, parser_vars,
                 loader_vars, flux_vars>>

(* tracker.import_from_dict(nested_dict) *)
ImportObj(nested_dict) ==
    /\ tree = None
    /\ LET done == import_obj(heap, nested_dict, clock) IN
       /\ Len(done[PROVENANCE_MAP].v) <= MaxEntries
       /\ Leaves(done, held, tree)
    /\ o_op' = [op |-> "import_from_dict", path |-> <<>>]
    /\ UNCHANGED <<before, clock, tracker_vars, entry_vars, parser_vars,
                 loader_vars, flux_vars>>

(* tracker.clear() *)
ClearObj ==
    /\ tree = None
    /\ Leaves(clear_obj(heap), held, tree)
    /\ o_op' = [op |-> "clear", path |-> <<>>]
    /\ UNCHANGED <<before, clock, tracker_vars, entry_vars, parser_vars,
                 loader_vars, flux_vars>>

(* tree = tracker.export_to_dict() *)
ExportObj ==
    /\ tree = None
    /\ LET done == export_obj(heap) IN Leaves(done.heap, held, done.ref)
    /\ before' = index_view(heap)
    /\ o_op' = [op |-> "export_to_dict", path |-> <<>>]
    /\ UNCHANGED <<clock, tracker_vars, entry_vars, parser_vars,
                 loader_vars, flux_vars>>

(* tree[k1]...[kn]["file"] = "/modified/path.yml", k1...kn the segments of
   param_path *)
ModifyLeaf(param_path) ==
    /\ tree # None
    /\ LET leaf == walk_obj(heap, tree.v, split(param_path)) IN
       /\ leaf # 0
       /\ Leaves(setitem_obj(heap, leaf, KEY_FILE, MODIFIED), held, tree)
    /\ o_op' = [op |-> "modify_leaf", path |-> param_path]
    /\ UNCHANGED <<before, clock, tracker_vars, entry_vars, parser_vars,
                 loader_vars, flux_vars>>

(* tree["NEW_KEY"] = {"file": "/new/file.yml"} *)
AddKey ==
    /\ tree # None
    /\ ~dict_contains(heap[tree.v].v, NEW_KEY)
    /\ Leaves(setitem_obj(heap @@ (new(heap) :> NEW_LEAF), tree.v, NEW_KEY,
                          Ref(new(heap))),
              held, tree)
    /\ o_op' = [op |-> "add_key", path |-> NEW_KEY]
    /\ UNCHANGED <<before, clock, tracker_vars, entry_vars, parser_vars,
                 loader_vars, flux_vars>>

(* the caller lets go of the tree *)
DropTree ==
    /\ tree # None
    /\ Leaves(heap, held, None)
    /\ before' = <<>>
    /\ UNCHANGED <<o_op, clock, tracker_vars, entry_vars, parser_vars,
                 loader_vars, flux_vars>>

NextObjects ==
    \/ \E param_path \in ObjPaths, src \in Sources :
           TrackObj(param_path, src[1], src[2], src[3])
    \/ \E param_path \in ObjPaths : GetObj(param_path)
    \/ \E nested_dict \in ObjTrees : ImportObj(nested_dict)
    \/ ClearObj
    \/ ExportObj
    \/ \E param_path \in ObjPaths : ModifyLeaf(param_path)
    \/ AddKey
    \/ DropTree

SpecObjects == Init /\ [][NextObjects]_vars

(* ----------------------------- yamlparser ----------------------------- *)

(* what a call did: it returned a value, or raised an exception (of a
   class derived from Exception: an error of the loader, not an interrupt
   of the process) *)
Returned(value) == [t |-> "return", v |-> value]
Raised(exc) == [t |-> "raise", v |-> exc]

(* the mapping of a YAML file, as yaml-provenance and as ruamel.yaml give
   it *)
DOCUMENT == << <<<<"key">>, PyStr(<<"value">>)>> >>
WITH_PROVENANCE == [t |-> "DictWithProvenance", v |-> DOCUMENT]
PLAIN == PyDict(DOCUMENT)

(* the streams given to load: an open file (v its name) and a file object
   whose name is None, a stream without a name, the path of a file as a str
   and as a Path (v its parts, the last one its name), YAML text as a str *)
Streams ==
    { [t |-> "file", v |-> PyStr(<<"/dir/a.yml">>)],
      [t |-> "file", v |-> None],
      [t |-> "StringIO", v |-> 0],
      PyStr(<<"/dir/a.yml">>),
      PyPath(<<"/dir/", "a.yml">>),
      PyStr(<<"key: value">>) }

(* what yaml_provenance.load_yaml(filepath) can do *)
LoadYamlOutcomes ==
    { Returned(WITH_PROVENANCE), Returned(None), Raised("FileNotFoundError"),
      Raised("YAMLError"), Raised("RecursionError") }

(* what _register_provenance_pickle_reducers() can do *)
ReducersOutcomes == { Returned(None), Raised("TypeError") }

(* what ruamel.yaml's YAML.load(stream) can do *)
RuamelOutcomes ==
    { Returned(PLAIN), Returned(None), Raised("FileNotFoundError"),
      Raised("YAMLError") }

(* the file path load resolves from the stream: stream.name if it has the
   attribute, the stream itself if it is a str or a Path, else None *)
filepath_of(stream) ==
    IF stream.t = "file" THEN stream.v
    ELSE IF stream.t = "Path" THEN PyStr(<<stream.v[Len(stream.v)]>>)
    ELSE IF stream.t = "str" THEN stream
    ELSE None

(* a load without the try: what the provenance calls raise is raised *)
load_unguarded(has, stream, load_yaml, reducers, ruamel) ==
    LET tried == has.v /\ filepath_of(stream) # None
    IN [stream |-> stream,
        load_yaml |-> IF tried THEN load_yaml ELSE None,
        reducers |-> IF tried /\ load_yaml.t = "return" THEN reducers ELSE None,
        ruamel |-> IF tried THEN None ELSE ruamel,
        result |-> IF ~tried THEN ruamel
                   ELSE IF load_yaml.t = "raise" THEN load_yaml
                   ELSE IF reducers.t = "raise" THEN reducers
                   ELSE Returned(IF load_yaml.v # None THEN load_yaml.v
                                 ELSE PyDict(<<>>))]

(* YAMLParser.load(stream) with _HAS_YAML_PROVENANCE = has, when the
   loaders do as given: the calls it makes with what they did (None for a
   call not made) and its result *)
load(has, stream, load_yaml, reducers, ruamel) ==
    LET tried == has.v /\ filepath_of(stream) # None
        registered == tried /\ load_yaml.t = "return"
        fell_back == \/ ~tried
                     \/ load_yaml.t = "raise"
                     \/ reducers.t = "raise"
    IN [stream |-> stream,
        load_yaml |-> IF tried THEN load_yaml ELSE None,
        reducers |-> IF registered THEN reducers ELSE None,
        ruamel |-> IF fell_back THEN ruamel ELSE None,
        result |-> IF fell_back THEN ruamel
                   ELSE Returned(IF load_yaml.v # None THEN load_yaml.v
                                 ELSE PyDict(<<>>))]

(* _BUILTIN_TYPES *)
BUILTIN_TYPES == {"str", "int", "float", "bytes", "bytearray"}

(* a class: the names of its bases in the order of its __mro__ (after the
   class itself), its __reduce__ (None: the one it inherits; else the type
   the reducer gives), its _pickle_patched, and how many times its
   __reduce__ was assigned *)
WrapperClass(mro) ==
    [mro |-> mro, reduce |-> None, pickle_patched |-> FALSE, patches |-> 0]

(* the classes yaml_provenance makes, each the first time a value of its
   type is loaded: wrappers of str, of ruamel's ScalarInt (an int) and of
   datetime.date (no builtin of _BUILTIN_TYPES among its bases) *)
WrapperTypes ==
    [n \in {"StrWithProvenance", "ScalarIntWithProvenance", "DateWithProvenance"} |->
        CASE n = "StrWithProvenance" -> <<"str", "object">>
          [] n = "ScalarIntWithProvenance" -> <<"ScalarInt", "int", "object">>
          [] n = "DateWithProvenance" -> <<"date", "object">>]

(* the classes the module imports by name, with the type their reducer
   gives *)
NamedTypes ==
    [n \in {"BoolWithProvenance", "NoneWithProvenance", "ListWithProvenance",
            "DictWithProvenance"} |->
        CASE n = "BoolWithProvenance" -> "bool"
          [] n = "NoneWithProvenance" -> "NoneType"
          [] n = "ListWithProvenance" -> "list"
          [] n = "DictWithProvenance" -> "dict"]

(* the classes one load_yaml call makes: none (its values are of types seen
   before), the wrapper of str, and wrappers of other scalars *)
LoadGains ==
    { {}, {"StrWithProvenance"}, {"ScalarIntWithProvenance"},
      {"StrWithProvenance", "DateWithProvenance"} }

(* a reducer that serialises an instance as builtin_type *)
Reducer(builtin_type) == [t |-> "reduce", v |-> builtin_type]

(* _get_builtin_base(cls): the first base of the __mro__ that is in
   _BUILTIN_TYPES, else cls.__bases__[0] *)
get_builtin_base(cls) ==
    IF \E i \in 1..Len(cls.mro) : cls.mro[i] \in BUILTIN_TYPES
    THEN cls.mro[CHOOSE i \in 1..Len(cls.mro) :
                     /\ cls.mro[i] \in BUILTIN_TYPES
                     /\ \A j \in 1..(i - 1) : cls.mro[j] \notin BUILTIN_TYPES]
    ELSE cls.mro[1]

(* cls.__reduce__ = reduce; cls._pickle_patched = True *)
patch(cls, reduce) ==
    [cls EXCEPT !.reduce = reduce, !.pickle_patched = TRUE, !.patches = @ + 1]

(* a registration that patches every class, marked or not *)
register_unmarked(has, registry, classes) ==
    IF ~has.v THEN [registry |-> registry, classes |-> classes]
    ELSE [registry |-> [n \in DOMAIN registry |->
                           patch(registry[n], Reducer(get_builtin_base(registry[n])))],
          classes |-> [n \in DOMAIN classes |->
                          patch(classes[n], Reducer(NamedTypes[n]))]]

(* _register_provenance_pickle_reducers(): [registry, classes], the classes
   of _wrapper_registry and the classes imported by name afterwards *)
register_provenance_pickle_reducers(has, registry, classes) ==
    IF ~has.v THEN [registry |-> registry, classes |-> classes]
    ELSE [registry |-> [n \in DOMAIN registry |->
                           IF ~registry[n].pickle_patched
                           THEN patch(registry[n],
                                      Reducer(get_builtin_base(registry[n])))
                           ELSE registry[n]],
          classes |-> [n \in DOMAIN classes |->
                          IF ~classes[n].pickle_patched
                          THEN patch(classes[n], Reducer(NamedTypes[n]))
                          ELSE classes[n]]]

(* the registry when load_yaml has made the classes named in gained: a
   class is made once *)
registry_with(registry, gained) ==
    [n \in DOMAIN registry \cup gained |->
        IF n \in DOMAIN registry THEN registry[n]
        ELSE WrapperClass(WrapperTypes[n])]

(* import autosubmit.config.yamlparser, with yaml-provenance installed or
   not *)
ImportYamlparser(installed) ==
    /\ has_yaml_provenance = None
    /\ has_yaml_provenance' = PyBool(installed)
    /\ wrapper_classes' = IF installed
                          THEN [n \in DOMAIN NamedTypes |-> WrapperClass(<<"object">>)]
                          ELSE <<>>
    /\ UNCHANGED <<loaded, wrapper_registry, clock, tracker_vars, entry_vars,
                   object_vars, loader_vars, flux_vars>>

(* YAMLParser().load(stream), load_yaml making the classes named in gained
   before it returns or raises; a registration that raises has patched
   nothing *)
Load(stream, load_yaml, reducers, ruamel, gained) ==
    /\ has_yaml_provenance # None
    /\ LET done == load(has_yaml_provenance, stream, load_yaml, reducers, ruamel)
           grown == IF done.load_yaml # None
                    THEN registry_with(wrapper_registry, gained)
                    ELSE wrapper_registry
           registered ==
               IF done.reducers # None /\ done.reducers.t = "return"
               THEN register_provenance_pickle_reducers(
                        has_yaml_provenance, grown, wrapper_classes)
               ELSE [registry |-> grown, classes |-> wrapper_classes]
       IN \* what a call that is not made would do is of no account
          /\ done.load_yaml = None
                 => gained = {} /\ load_yaml = Returned(None)
          /\ done.reducers = None => reducers = Returned(None)
          /\ done.ruamel = None => ruamel = Returned(None)
          /\ loaded' = done
          /\ wrapper_registry' = registered.registry
          /\ wrapper_classes' = registered.classes
    /\ UNCHANGED <<has_yaml_provenance, clock, tracker_vars, entry_vars,
                   object_vars, loader_vars, flux_vars>>

(* _register_provenance_pickle_reducers(), called again *)
RegisterAgain ==
    /\ has_yaml_provenance # None
    /\ loaded # NoLoad
    /\ LET registered == register_provenance_pickle_reducers(
                             has_yaml_provenance, wrapper_registry, wrapper_classes)
       IN /\ wrapper_registry' = registered.registry
          /\ wrapper_classes' = registered.classes
    /\ UNCHANGED <<loaded, has_yaml_provenance, clock, tracker_vars, entry_vars,
                   object_vars, loader_vars, flux_vars>>

NextParser ==
    \/ \E installed \in BOOLEAN : ImportYamlparser(installed)
    \/ \E stream \in Streams, load_yaml \in LoadYamlOutcomes,
          reducers \in ReducersOutcomes, ruamel \in RuamelOutcomes,
          gained \in LoadGains :
           Load(stream, load_yaml, reducers, ruamel, gained)
    \/ RegisterAgain

SpecParser == Init /\ [][NextParser]_vars

(* ---------------------------- entry claims ---------------------------- *)

(* C4: from_dict of a mapping that has "file" but no "timestamp" gives an
   entry whose timestamp is None: it is not stamped with the current
   time. *)
C4_MissingTimestampStaysAbsent ==
    (/\ e_op = "from_dict"
     /\ dict_contains(data, KEY_FILE)
     /\ ~dict_contains(data, KEY_TIMESTAMP))
    => (raised = "" /\ restored.timestamp = None)

(* C7: from_dict(to_dict(entry)) has the file, line, col and timestamp of
   entry, for every entry ProvEntry(...) builds (with an explicit timestamp
   or not, line and col absent, negative, zero or positive); an absent line
   or col stays None. *)
C7_EntryRoundTrip ==
    e_op = "round_trip"
    => /\ raised = ""
       /\ restored.file = entry.file
       /\ restored.line = entry.line
       /\ restored.col = entry.col
       /\ restored.timestamp = entry.timestamp

(* C7's case: an entry with line 0, no col and an explicit timestamp went
   through to_dict and from_dict *)
C7_Witness ==
    /\ e_op = "round_trip"
    /\ entry.line = PyInt(0)
    /\ entry.col = None
    /\ entry.timestamp = PyFloat(7)
    /\ restored.col = None

(* C8: from_dict of a mapping without "file" raises KeyError, whatever
   other keys the mapping holds, and returns no entry. *)
C8_MissingFileRaises ==
    (e_op = "from_dict" /\ ~dict_contains(data, KEY_FILE))
    => (raised = "KeyError" /\ restored = NoEntry)

(* C8's case: from_dict was given a mapping with line, col and timestamp
   and no file *)
C8_Witness ==
    /\ e_op = "from_dict"
    /\ dict_keys(data) = {KEY_LINE, KEY_COL, KEY_TIMESTAMP}
    /\ raised = "KeyError"

(* --------------------------- tracker claims --------------------------- *)

(* keys[1..n] is a proper prefix of other *)
is_proper_prefix(keys, other) ==
    Len(keys) < Len(other) /\ SubSeq(other, 1, Len(keys)) = keys

(* two paths meet in a tree-shape collision: one is P, the other P.X *)
collide(path, other) ==
    \/ is_proper_prefix(split(path), split(other))
    \/ is_proper_prefix(split(other), split(path))

(* pm without its i-th item *)
without(pm, i) == SubSeq(pm, 1, i - 1) \o SubSeq(pm, i + 1, Len(pm))

(* ".".join(keys) *)
RECURSIVE join(_)
join(keys) ==
    IF Len(keys) = 1 THEN keys[1]
    ELSE keys[1] \o <<SEP>> \o join(Tail(keys))

(* C1: after exported = tracker.export_to_dict() and
   new_tracker.import_from_dict(exported) on a fresh tracker, every path of
   the tracker is in new_tracker with the same file, line, col and
   timestamp, and len(new_tracker) = len(tracker), whatever paths were
   recorded. *)
C1_IndexRoundTrip ==
    pc = "imported"
    => /\ len(new_tracker) = len(provenance_map)
       /\ \A i \in 1..Len(provenance_map) :
              /\ contains(new_tracker, provenance_map[i][1])
              /\ get(new_tracker, provenance_map[i][1]) = provenance_map[i][2]

(* C2: last wins. For every path whose latest recording was a track call,
   get(path) has the file, line and col of that call: the file as a str, a
   line or col the call left out None, whatever the entry before held. *)
C2_LastWins ==
    \A p \in DOMAIN recorded :
        recorded[p].by = "track"
        => /\ contains(provenance_map, p)
           /\ get(provenance_map, p).file = PyStr(recorded[p].file.v)
           /\ get(provenance_map, p).line = recorded[p].line
           /\ get(provenance_map, p).col = recorded[p].col

(* C2's case: a track call without line replaced an entry that had a line,
   beside another tracked path *)
C2_Witness ==
    /\ last.op = "track"
    /\ \E p \in DOMAIN recorded :
           /\ p # last.path
           /\ recorded[p].by = "track"
    /\ last.prev = Replaced(PyInt(5))
    /\ get(provenance_map, last.path).line = None

(* C3: when two recorded paths collide (P and P.X), export_to_dict drops
   the one it processes second: the exported dict is the one the tracker
   would export without that path, the first path's value neither
   overwritten nor merged with. *)
C3_CollisionSkipsSecond ==
    pc = "exported"
    => \A j \in 1..Len(provenance_map) :
           (\E i \in 1..(j - 1) :
                collide(provenance_map[i][1], provenance_map[j][1]))
           => exported.v = export_to_dict(without(provenance_map, j))

(* the paths C5 calls unusual: empty, a leading, trailing or doubled
   separator *)
is_unusual(path) ==
    \/ path = <<>>
    \/ path[1] = SEP
    \/ path[Len(path)] = SEP
    \/ \E i \in 1..(Len(path) - 1) : path[i] = SEP /\ path[i + 1] = SEP

(* C5: a tracker holding one path of unusual format holds it verbatim, and
   after export_to_dict and import_from_dict into a fresh tracker that path
   is in the fresh tracker. *)
C5_UnusualPathRoundTrip ==
    (/\ pc = "imported"
     /\ len(provenance_map) = 1
     /\ is_unusual(provenance_map[1][1]))
    => contains(new_tracker, provenance_map[1][1])

(* C6: len(tracker) is the number of distinct paths tracked or imported
   since the tracker was created or last cleared. *)
C6_CountIsDistinctPaths ==
    len(provenance_map) = Cardinality(DOMAIN recorded)

(* C6's case: a path that was already there was tracked again, beside
   another path *)
C6_Witness ==
    /\ last.op = "track"
    /\ last.prev # None
    /\ len(provenance_map) = 2
    /\ Cardinality(DOMAIN recorded) = 2
(* the leaves the claim C9 names: each dict with "file" that no dict with
   "file" encloses, with the dot-joined path of the keys leading to it *)
RECURSIVE leaves_at(_, _)
leaves_at(nested_dict, keys) ==
    UNION { LET value == nested_dict[i][2]
                here == Append(keys, nested_dict[i][1])
            IN IF value.t # "dict" THEN {}
               ELSE IF dict_contains(value.v, KEY_FILE)
               THEN {<<join(here), value.v>>}
               ELSE leaves_at(value.v, here)
            : i \in 1..Len(nested_dict) }

(* C9: import_from_dict takes a dict value as a leaf exactly when it has a
   "file" key: the call adds to the tracker exactly the leaves of the
   nested dict, each deserialized and recorded at the dot-joined path of
   the keys leading to it, and nothing for a dict without "file" but what
   its own values add. *)
C9_LeafIffFileKey ==
    [][LET nested_dict == last'.tree IN
           (last'.op = "import_from_dict" /\ Import(nested_dict))
           => /\ dict_keys(provenance_map')
                   = dict_keys(provenance_map)
                     \cup {l[1] : l \in leaves_at(nested_dict, <<>>)}
              /\ \A l \in leaves_at(nested_dict, <<>>) :
                     get(provenance_map', l[1]) = from_dict(l[2], clock).val]_vars

(* a nested dict without the values that are no dicts, at every level that
   import_from_dict walks *)
RECURSIVE prune(_)
prune(nested_dict) ==
    IF nested_dict = <<>> THEN <<>>
    ELSE LET key == Head(nested_dict)[1]
             value == Head(nested_dict)[2]
         IN IF value.t # "dict" THEN prune(Tail(nested_dict))
            ELSE IF dict_contains(value.v, KEY_FILE)
            THEN <<Head(nested_dict)>> \o prune(Tail(nested_dict))
            ELSE << <<key, PyDict(prune(value.v))>> >> \o prune(Tail(nested_dict))

(* the paths import_from_dict builds for the values that are no dicts *)
RECURSIVE non_dict_paths(_, _)
non_dict_paths(nested_dict, prefix) ==
    UNION { LET value == nested_dict[i][2]
                param_path == param_path_of(prefix, nested_dict[i][1])
            IN IF value.t # "dict" THEN {param_path}
               ELSE IF dict_contains(value.v, KEY_FILE) THEN {}
               ELSE non_dict_paths(value.v, param_path)
            : i \in 1..Len(nested_dict) }

(* C10: import_from_dict ignores the values that are no dicts: it raises
   nothing, leaves the tracker as the same nested dict without those values
   would, records nothing at their paths, and has every leaf of the nested
   dict in the tracker afterwards. *)
C10_NonDictIgnored ==
    [][LET nested_dict == last'.tree IN
           (last'.op = "import_from_dict" /\ Import(nested_dict))
           => /\ last'.exc = ""
              /\ provenance_map'
                   = import_from_dict(provenance_map, prune(nested_dict),
                                      <<>>, clock).pm
              /\ \A q \in non_dict_paths(nested_dict, <<>>) :
                     contains(provenance_map', q)
                     => \/ contains(provenance_map, q)
                        \/ q \in leaf_paths(nested_dict, <<>>)
              /\ \A q \in leaf_paths(nested_dict, <<>>) :
                     contains(provenance_map', q)]_vars

(* C10's case: a nested dict with a str where a dict was expected and a
   leaf beside it was imported: the leaf is there, the str's path is not *)
C10_Witness ==
    /\ last.op = "import_from_dict"
    /\ last.exc = ""
    /\ last.tree = << <<<<"A">>, PyStr(<<"A">>)>>, <<<<>>, LEAF_FULL>> >>
    /\ contains(provenance_map, <<>>)
    /\ ~contains(provenance_map, <<"A">>)

(* the paths a caller asks about: the ones given to track, the ones in the
   tracker, the ones recorded *)
asked_paths == Paths \cup dict_keys(provenance_map) \cup DOMAIN recorded

(* C11: for every path, `path in tracker` is true exactly when get(path)
   returns an entry, and exactly when the path was tracked or imported
   since the tracker was created or last cleared; get of any other path is
   None. *)
C11_MembershipIffLookup ==
    \A p \in asked_paths :
        /\ contains(provenance_map, p) <=> (get(provenance_map, p) # None)
        /\ contains(provenance_map, p) <=> (p \in DOMAIN recorded)
        /\ (p \notin DOMAIN recorded) => (get(provenance_map, p) = None)

(* C11's case: the empty path is in the tracker after a track call, and
   "A.B" is asked about without having been recorded *)
C11_Witness ==
    /\ last.op = "track"
    /\ contains(provenance_map, <<>>)
    /\ get(provenance_map, <<>>) # None
    /\ ~contains(provenance_map, <<"A", SEP, "B">>)
    /\ get(provenance_map, <<"A", SEP, "B">>) = None

(* C12: a clear leaves len 0 and every path that was in the tracker out of
   it, with get None; the track or import_from_dict that follows a clear
   leaves the tracker as it leaves a fresh one, nothing from before the
   clear in it. *)
C12_ClearEmpties ==
    [][/\ (last'.op = "clear")
          => /\ len(provenance_map') = 0
             /\ \A p \in dict_keys(provenance_map) :
                    /\ ~contains(provenance_map', p)
                    /\ get(provenance_map', p) = None
       /\ (last.op = "clear" /\ last'.op = "track")
          => provenance_map'
               = track(<<>>, last'.path, recorded'[last'.path].file,
                       recorded'[last'.path].line, recorded'[last'.path].col,
                       clock)
       /\ (last.op = "clear" /\ last'.op = "import_from_dict")
          => provenance_map'
               = import_from_dict(<<>>, last'.tree, <<>>, clock).pm]_vars

(* C12's case: a clear found two entries and left none *)
C12_Witness ==
    /\ last.op = "clear"
    /\ last.prev = Replaced(PyInt(2))
    /\ len(provenance_map) = 0
    /\ recorded = <<>>

(* C13: to_dict gives a mapping with "file" and "timestamp" always, "line"
   exactly when the entry's line is not None and "col" exactly when its col
   is not None, each with the entry's value (0 included), no other key and
   no None value. *)
C13_ToDictKeys ==
    e_op \in {"to_dict", "round_trip"}
    => /\ dict_keys(data) \subseteq {KEY_FILE, KEY_TIMESTAMP, KEY_LINE, KEY_COL}
       /\ dict_get(data, KEY_FILE) = entry.file
       /\ dict_get(data, KEY_TIMESTAMP) = entry.timestamp
       /\ dict_contains(data, KEY_LINE) <=> (entry.line # None)
       /\ dict_contains(data, KEY_COL) <=> (entry.col # None)
       /\ dict_get(data, KEY_LINE) = entry.line
       /\ dict_get(data, KEY_COL) = entry.col
       /\ \A i \in 1..Len(data) : data[i][2] # None

(* C13's case: to_dict of an entry with line 0 and no col *)
C13_Witness ==
    /\ e_op = "to_dict"
    /\ entry.line = PyInt(0)
    /\ entry.col = None
    /\ dict_keys(data) = {KEY_FILE, KEY_TIMESTAMP, KEY_LINE}
    /\ dict_getitem(data, KEY_LINE) = PyInt(0)

(* what following keys from a node reaches: a value, or Missing where a key
   is not there or a node on the way is no dict *)
Missing == [t |-> "missing", v |-> 0]
RECURSIVE walk(_, _)
walk(node, keys) ==
    IF keys = <<>> THEN node
    ELSE IF node.t # "dict" THEN Missing
    ELSE IF ~dict_contains(node.v, Head(keys)) THEN Missing
    ELSE walk(dict_getitem(node.v, Head(keys)), Tail(keys))

(* the key sequences of the nodes of a nested dict, not going below the
   nodes at stops nor below values that are no dicts *)
RECURSIVE positions(_, _, _)
positions(d, keys, stops) ==
    UNION { LET here == Append(keys, d[i][1])
                value == d[i][2]
            IN {here} \cup (IF here \in stops \/ value.t # "dict" THEN {}
                            ELSE positions(value.v, here, stops))
            : i \in 1..Len(d) }

proper_prefixes(keys) == {SubSeq(keys, 1, n) : n \in 1..(Len(keys) - 1)}

no_collision(pm) ==
    \A i, j \in 1..Len(pm) : i # j => ~collide(pm[i][1], pm[j][1])

(* C14: when no two paths of the tracker collide, export_to_dict gives a
   nested dict where following the segments of each path reaches that
   entry's to_dict(), every node on the way a dict; the dict has no node
   but these (so no other leaf), a path without separator is a top-level
   key, and an empty tracker gives {}. *)
C14_ExportShape ==
    (pc = "exported" /\ no_collision(provenance_map))
    => LET stops == {split(provenance_map[i][1]) : i \in 1..Len(provenance_map)}
       IN /\ exported.t = "dict"
          /\ \A i \in 1..Len(provenance_map) :
                 /\ walk(exported, split(provenance_map[i][1]))
                      = PyDict(to_dict(provenance_map[i][2]))
                 /\ \A keys \in proper_prefixes(split(provenance_map[i][1])) :
                        walk(exported, keys).t = "dict"
          /\ positions(exported.v, <<>>, stops)
               = stops \cup UNION {proper_prefixes(keys) : keys \in stops}
          /\ (provenance_map = <<>>) => (exported = PyDict(<<>>))

(* C14's case: "A.B" and "A.file" exported, both under the one dict at
   "A" *)
C14_Witness ==
    /\ pc = "exported"
    /\ len(provenance_map) = 2
    /\ contains(provenance_map, <<"A", SEP, "B">>)
    /\ contains(provenance_map, <<"A", SEP, "file">>)
    /\ dict_keys(walk(exported, << <<"A">> >>).v) = {<<"B">>, <<"file">>}

(* C15: import_from_dict into a tracker that holds entries leaves, at the
   dot-joined path of every leaf of the nested dict, an entry with the
   leaf's file, line and col, and its timestamp where it has one; the
   entry of every other path is the one from before the call; len is the
   number of distinct paths, those from before and those of the leaves. *)
C15_ImportReplacesLeaves ==
    [][LET nested_dict == last'.tree
           leaves == leaves_at(nested_dict, <<>>)
       IN (last'.op = "import_from_dict" /\ Import(nested_dict))
          => /\ \A l \in leaves :
                    /\ contains(provenance_map', l[1])
                    /\ get(provenance_map', l[1]).file
                         = str(dict_getitem(l[2], KEY_FILE))
                    /\ get(provenance_map', l[1]).line = dict_get(l[2], KEY_LINE)
                    /\ get(provenance_map', l[1]).col = dict_get(l[2], KEY_COL)
                    /\ dict_contains(l[2], KEY_TIMESTAMP)
                       => get(provenance_map', l[1]).timestamp
                            = dict_getitem(l[2], KEY_TIMESTAMP)
             /\ \A p \in dict_keys(provenance_map) \ {l[1] : l \in leaves} :
                    /\ contains(provenance_map', p)
                    /\ get(provenance_map', p) = get(provenance_map, p)
             /\ len(provenance_map')
                  = Cardinality(dict_keys(provenance_map)
                                \cup {l[1] : l \in leaves})]_vars

(* C18: no call on the tracker raises, whatever paths were tracked and
   whatever nested dict was imported (values that are no dicts, dicts
   without "file", empty dicts, empty keys): import_from_dict ends without
   an exception, and `in`, get, len and export_to_dict give a result for
   every path and every tracker reached. *)
C18_NoTrackerCallRaises ==
    /\ last.exc = ""
    /\ \A p \in asked_paths :
           get(provenance_map, p) = None \/ contains(provenance_map, p)
    /\ Len(export_to_dict(provenance_map)) <= len(provenance_map)

(* C18's case: a nested dict whose dicts have no "file" (one of them empty,
   one with a "line" only) was imported *)
C18_Witness ==
    /\ last.op = "import_from_dict"
    /\ last.tree = << <<<<"A">>, PyDict(<< <<<<"B">>, PyDict(<<>>)>>,
                                          <<KEY_LINE, PyInt(5)>> >>)>> >>
    /\ last.exc = ""

(* a == b of two Python values: dicts are equal when they have the same
   keys with equal values, in whatever order *)
RECURSIVE py_eq(_, _)
py_eq(a, b) ==
    IF a.t = "dict" /\ b.t = "dict"
    THEN /\ dict_keys(a.v) = dict_keys(b.v)
         /\ \A k \in dict_keys(a.v) :
                py_eq(dict_getitem(a.v, k), dict_getitem(b.v, k))
    ELSE a = b

(* the orders in which the items of pm can be recorded *)
orders(pm) ==
    {f \in [1..Len(pm) -> 1..Len(pm)] :
         \A i, j \in 1..Len(pm) : f[i] = f[j] => i = j}

(* the provenance_map of a tracker that got the items of pm in the order f *)
RECURSIVE recorded_in_order(_, _, _)
recorded_in_order(pm, f, n) ==
    IF n = 0 THEN <<>>
    ELSE dict_setitem(recorded_in_order(pm, f, n - 1), pm[f[n]][1], pm[f[n]][2])

(* C19 as stated: a tracker that got the same (path, entry) pairs in
   another order gives the same get for every path, the same len and an
   equal export_to_dict result, whatever the paths. *)
C19_OrderIrrelevant ==
    pc = "exported"
    => \A f \in orders(provenance_map) :
           LET other == recorded_in_order(provenance_map, f, Len(provenance_map))
           IN /\ \A p \in asked_paths : get(other, p) = get(provenance_map, p)
              /\ len(other) = len(provenance_map)
              /\ py_eq(PyDict(export_to_dict(other)), exported)

(* C19 amended: a tracker that got the same (path, entry) pairs in another
   order gives the same get for every path and the same len, and, when no
   two of the paths collide, an equal export_to_dict result. *)
C19_OrderIrrelevantNoCollision ==
    pc = "exported"
    => \A f \in orders(provenance_map) :
           LET other == recorded_in_order(provenance_map, f, Len(provenance_map))
           IN /\ \A p \in asked_paths : get(other, p) = get(provenance_map, p)
              /\ len(other) = len(provenance_map)
              /\ no_collision(provenance_map)
                 => py_eq(PyDict(export_to_dict(other)), exported)

(* C19's case: "A.file" was recorded before "A.B" and the export has them
   in that order under "A"; the other order gives them in the other *)
C19_Witness ==
    /\ pc = "exported"
    /\ len(provenance_map) = 2
    /\ provenance_map[1][1] = <<"A", SEP, "file">>
    /\ provenance_map[2][1] = <<"A", SEP, "B">>
    /\ walk(exported, << <<"A">> >>).v[1][1] = <<"file">>
    /\ export_to_dict(<<provenance_map[2], provenance_map[1]>>) # exported.v

(* --------------------------- object claims ---------------------------- *)

(* C16: while the caller has the dict export_to_dict returned, whatever it
   assigns in it (a leaf's "file", a new top-level key), the tracker
   answers as before the export: the same len, the same paths in it, and
   for each path an entry with the same file, line, col and timestamp. *)
C16_ExportSharesNothing ==
    tree # None
    => /\ Len(heap[PROVENANCE_MAP].v) = Len(before)
       /\ \A p \in ObjPaths \cup {NEW_KEY} :
              (get_obj(heap, p) # None)
              <=> (\E i \in 1..Len(before) : before[i][1] = p)
       /\ \A i \in 1..Len(before) :
              /\ get_obj(heap, before[i][1]) # None
              /\ heap[get_obj(heap, before[i][1]).v].v = before[i][2]

(* C16's case: the caller added a key to the returned dict and changed the
   "file" of the leaf of a path, and the entry of that path has its file *)
C16_Witness ==
    /\ tree # None
    /\ dict_contains(heap[tree.v].v, NEW_KEY)
    /\ \E p \in ObjPaths :
           /\ walk_obj(heap, tree.v, split(p)) # 0
           /\ dict_get(heap[walk_obj(heap, tree.v, split(p))].v, KEY_FILE)
                = MODIFIED
           /\ get_obj(heap, p) # None
           /\ heap[get_obj(heap, p).v].v.file # MODIFIED

(* C17: an entry a caller got from get has the file, line, col and
   timestamp it had then, whatever track, import_from_dict and clear calls
   came after; and after a track of its path, get gives another object. *)
C17_EntriesNotMutated ==
    held # None
    => /\ heap[held.ref.v].v = held.fields
       /\ (o_op.op = "track" /\ o_op.path = held.path)
          => /\ get_obj(heap, held.path) # None
             /\ get_obj(heap, held.path) # held.ref

(* C17's case: the path of a held entry was tracked again with other
   arguments; the tracker has the new entry, the held one is as it was *)
C17_Witness ==
    /\ held # None
    /\ o_op.op = "track"
    /\ o_op.path = held.path
    /\ heap[get_obj(heap, held.path).v].v.file # held.fields.file
    /\ heap[held.ref.v].v = held.fields

(* --------------------------- parser claims ---------------------------- *)

(* C20: when _HAS_YAML_PROVENANCE is False, when the stream gives no file
   path, or when load_yaml or the registration of the reducers raises, load
   calls ruamel.yaml's load on the stream and its result is that call's:
   the value it returned or the exception it raised. *)
C20_LoadFallsBack ==
    (/\ loaded # NoLoad
     /\ \/ has_yaml_provenance = PyBool(FALSE)
        \/ filepath_of(loaded.stream) = None
        \/ loaded.load_yaml.t = "raise"
        \/ loaded.reducers.t = "raise")
    => /\ loaded.ruamel # None
       /\ loaded.result = loaded.ruamel

(* C20's case: load_yaml raised on an open file and load returned the
   plain mapping of ruamel.yaml *)
C20_Witness ==
    /\ has_yaml_provenance = PyBool(TRUE)
    /\ loaded.stream = [t |-> "file", v |-> PyStr(<<"/dir/a.yml">>)]
    /\ loaded.load_yaml = Raised("YAMLError")
    /\ loaded.result = Returned(PLAIN)

(* ------------------------------- loader ------------------------------- *)
(* AutosubmitConfig._track_yaml_provenance, the caller of track: for each
   YAML file it gets the parsed top-level mapping and the file's path, and
   records every parameter of the mapping at its dotted path. *)

PyList(items) == [t |-> "list", v |-> items]

(* a ProvenanceTracker, v its provenance_map *)
Tracker(pm) == [t |-> "ProvenanceTracker", v |-> pm]

(* str(i) of the index of a list item *)
INDEX == <<"0", "1", "2">>

(* a _track_yaml_provenance that goes into lists as it goes into mappings,
   an item of a list at the key str(index) *)
RECURSIVE track_yaml_provenance_indexed(_, _, _, _, _)
track_yaml_provenance_indexed(self, parsed, file_path, prefix, now) ==
    IF ~self.track_provenance \/ self.provenance_tracker = None THEN self
    ELSE IF parsed = <<>> THEN self
    ELSE LET key == Head(parsed)[1]
             value == Head(parsed)[2]
             param_path == param_path_of(prefix, key)
             step ==
                 IF value.t = "dict"
                 THEN track_yaml_provenance_indexed(self, value.v, file_path,
                                                    param_path, now)
                 ELSE IF value.t = "list"
                 THEN track_yaml_provenance_indexed(
                          self, [i \in 1..Len(value.v) |-> <<<<INDEX[i]>>, value.v[i]>>],
                          file_path, param_path, now)
                 ELSE [self EXCEPT !.provenance_tracker =
                          Tracker(track(self.provenance_tracker.v, param_path,
                                        file_path, None, None, now))]
         IN track_yaml_provenance_indexed(step, Tail(parsed), file_path, prefix, now)

(* as_conf._track_yaml_provenance(data, file_path) at time now, prefix the
   path of the mapping the data is the value of: nothing when tracking is off
   or there is no tracker; else a mapping value is gone into, with its key
   added to the path, and any other value (a scalar, a list) is recorded
   at its path.  The AutosubmitConfig afterwards. *)
RECURSIVE track_yaml_provenance(_, _, _, _, _)
track_yaml_provenance(self, parsed, file_path, prefix, now) ==
    IF ~self.track_provenance \/ self.provenance_tracker = None THEN self
    ELSE IF parsed = <<>> THEN self
    ELSE LET key == Head(parsed)[1]
             value == Head(parsed)[2]
             param_path == param_path_of(prefix, key)
             step ==
                 IF value.t = "dict"
                 THEN track_yaml_provenance(self, value.v, file_path,
                                            param_path, now)
                 ELSE [self EXCEPT !.provenance_tracker =
                          Tracker(track(self.provenance_tracker.v, param_path,
                                        file_path, None, None, now))]
         IN track_yaml_provenance(step, Tail(parsed), file_path, prefix, now)

SCALAR == PyStr(<<"value">>)

(* The parsed mappings the loader is given: empty, flat, nested, with
   lists (empty, of scalars, of lists, with a mapping as an item) and with
   an empty mapping as a value. *)
LoaderData ==
    { <<>>,
      << <<<<"A">>, SCALAR>>, <<<<"B">>, PyList(<<SCALAR, SCALAR>>)>> >>,
      << <<<<"A">>, PyDict(<< <<<<"B">>,
             PyList(<<SCALAR, PyDict(<< <<<<"A">>, SCALAR>> >>)>>)>> >>)>> >>,
      << <<<<"A">>, PyDict(<< <<<<"B">>, PyInt(2)>> >>)>>,
         <<<<"B">>, PyList(<<>>)>> >>,
      << <<<<"A">>, PyList(<<PyList(<<SCALAR>>)>>)>> >>,
      << <<<<"A">>, PyDict(<<>>)>> >>,
      << <<<<"B">>, PyDict(<< <<<<"A">>, PyList(<<SCALAR>>)>>,
                              <<<<"B">>, PyDict(<<>>)>> >>)>> >> }

LoaderFiles == { PyStr(<<"/a.yml">>), PyStr(<<"/b.yml">>) }

(* as_conf.track_provenance = enabled, and as_conf.provenance_tracker =
   ProvenanceTracker() or None *)
Configure(enabled, with_tracker) ==
    /\ as_conf' = [track_provenance |-> enabled,
                   provenance_tracker |-> IF with_tracker THEN Tracker(<<>>)
                                          ELSE None]
    /\ as_conf' # as_conf
    /\ tracked' = NoTracked
    /\ UNCHANGED <<clock, tracker_vars, entry_vars, object_vars, parser_vars,
                   flux_vars>>

(* as_conf._track_yaml_provenance(data, file_path) *)
TrackYamlProvenance(parsed, file_path) ==
    /\ LET done == track_yaml_provenance(as_conf, parsed, file_path, <<>>, clock) IN
       /\ done.provenance_tracker # None
              => len(done.provenance_tracker.v) <= MaxEntries + 1
       /\ as_conf' = done
    /\ tracked' = [data |-> PyDict(parsed), file_path |-> file_path]
    /\ UNCHANGED <<clock, tracker_vars, entry_vars, object_vars, parser_vars,
                   flux_vars>>

LoaderTick ==
    /\ Tick
    /\ as_conf.provenance_tracker # None

NextLoader ==
    \/ LoaderTick
    \/ \E enabled \in BOOLEAN, with_tracker \in BOOLEAN :
           Configure(enabled, with_tracker)
    \/ \E parsed \in LoaderData, file_path \in LoaderFiles :
           TrackYamlProvenance(parsed, file_path)

SpecLoader == Init /\ [][NextLoader]_vars

(* ---------------------------- loader claims --------------------------- *)

(* the paths of the values of a mapping that are no mappings, each the dotted
   path of its keys; lists_only: of the values that are lists *)
RECURSIVE value_paths(_, _, _)
value_paths(parsed, prefix, lists_only) ==
    UNION { LET value == parsed[i][2]
                param_path == param_path_of(prefix, parsed[i][1])
            IN IF value.t = "dict"
               THEN value_paths(value.v, param_path, lists_only)
               ELSE IF lists_only /\ value.t # "list" THEN {}
               ELSE {param_path}
            : i \in 1..Len(parsed) }

(* other is path + "." + an index, or goes on below that *)
is_indexed_below(path, other) ==
    /\ is_proper_prefix(split(path), split(other))
    /\ split(other)[Len(split(path)) + 1] \in {<<INDEX[i]>> : i \in DOMAIN INDEX}

(* C21: after _track_yaml_provenance(data, file_path) with tracking on,
   every value of the data that is no mapping has an entry at the dotted path
   of its keys, from file_path; a value that is a list has exactly one
   entry, at its own path, and the tracker has no entry at path + ".0",
   path + ".1" or any other index below the path. *)
C21_ListIsOneLeaf ==
    (/\ tracked # NoTracked
     /\ as_conf.track_provenance
     /\ as_conf.provenance_tracker # None)
    => LET pm == as_conf.provenance_tracker.v IN
       /\ \A path \in value_paths(tracked.data.v, <<>>, FALSE) :
              /\ contains(pm, path)
              /\ get(pm, path).file = tracked.file_path
       /\ \A path \in value_paths(tracked.data.v, <<>>, TRUE) :
              /\ Cardinality({i \in 1..Len(pm) : pm[i][1] = path}) = 1
              /\ \A i \in 1..Len(pm) : ~is_indexed_below(path, pm[i][1])

(* C21's case: a list with a mapping as an item was tracked at "A.B", and
   the tracker has that one entry *)
C21_Witness ==
    /\ as_conf.track_provenance
    /\ as_conf.provenance_tracker # None
    /\ tracked.data = PyDict(<< <<<<"A">>, PyDict(<< <<<<"B">>,
           PyList(<<SCALAR, PyDict(<< <<<<"A">>, SCALAR>> >>)>>)>> >>)>> >>)
    /\ dict_keys(as_conf.provenance_tracker.v) = {<<"A", SEP, "B">>}

(* ----------------------- tracker claims, continued -------------------- *)

(* the path has a segment "file" after its first segment *)
has_file_below(path) ==
    \E i \in 2..Len(split(path)) : split(path)[i] = KEY_FILE

(* C22: if no path of the tracker is a segment-wise prefix of another, no
   path begins with the separator and no path has a segment "file" but as
   its first segment, then after exported = tracker.export_to_dict() and
   new_tracker.import_from_dict(exported) on a fresh tracker, new_tracker
   has exactly the paths of the tracker, each with the same file, line, col
   and timestamp. *)
C22_RoundTripWellFormed ==
    (/\ pc = "imported"
     /\ no_collision(provenance_map)
     /\ \A i \in 1..Len(provenance_map) :
            LET path == provenance_map[i][1] IN
            /\ path = <<>> \/ path[1] # SEP
            /\ ~has_file_below(path))
    => /\ dict_keys(new_tracker) = dict_keys(provenance_map)
       /\ len(new_tracker) = len(provenance_map)
       /\ \A i \in 1..Len(provenance_map) :
              LET was == provenance_map[i][2]
                  now_is == get(new_tracker, provenance_map[i][1])
              IN /\ now_is.file = was.file
                 /\ now_is.line = was.line
                 /\ now_is.col = was.col
                 /\ now_is.timestamp = was.timestamp

(* C22's case: the empty path and "A.B", tracked at different times, came
   back from the round trip *)
C22_Witness ==
    /\ pc = "imported"
    /\ dict_keys(provenance_map) = {<<>>, <<"A", SEP, "B">>}
    /\ get(provenance_map, <<>>).timestamp # get(provenance_map, <<"A", SEP, "B">>).timestamp
    /\ get(provenance_map, <<>>).line = None
    /\ dict_keys(new_tracker) = {<<>>, <<"A", SEP, "B">>}

(* the tree export_to_dict has built when it has processed the first n
   items of the tracker *)
tree_after(pm, n) == export_loop(SubSeq(pm, 1, n), <<>>)

(* C23: every value export_to_dict places in the tree, leaf or
   intermediate, is a dict, and its break on a value that is no dict never
   runs: for every path of the tracker, in the order of the loop, the walk
   down the tree built so far does not break and the leaf of the path is
   set at its keys.  Of two paths P and P.X, the one processed later is
   written into the dict of the earlier one (P first: the dict at P keeps
   its "file" and gets the key X) or over it (P.X first: the dict at P is
   the leaf of P alone). *)
C23_ExportNeverSkips ==
    pc = "exported"
    => /\ \A j \in 1..Len(provenance_map) :
              LET keys == split(provenance_map[j][1])
                  leaf == PyDict(to_dict(provenance_map[j][2]))
              IN /\ ~export_breaks(tree_after(provenance_map, j - 1), keys)
                 /\ \A n \in 1..Len(keys) :
                        walk(PyDict(tree_after(provenance_map, j)),
                             SubSeq(keys, 1, n)).t = "dict"
                 /\ walk(PyDict(tree_after(provenance_map, j)), keys) = leaf
                 /\ \A i \in 1..(j - 1) :
                        LET earlier == split(provenance_map[i][1])
                            there == walk(PyDict(tree_after(provenance_map, j)),
                                          earlier)
                        IN is_proper_prefix(earlier, keys)
                           => /\ there.t = "dict"
                              /\ dict_contains(there.v, KEY_FILE)
                              /\ dict_contains(there.v, keys[Len(earlier) + 1])
       /\ provenance_map # <<>>
              => walk(exported, split(provenance_map[Len(provenance_map)][1]))
                     = PyDict(to_dict(provenance_map[Len(provenance_map)][2]))

(* C23's case: "A" then "A.B" exported, the leaf of "A.B" inside the leaf
   of "A" *)
C23_Witness ==
    /\ pc = "exported"
    /\ Len(provenance_map) = 2
    /\ provenance_map[1][1] = <<"A">>
    /\ provenance_map[2][1] = <<"A", SEP, "B">>
    /\ walk(exported, <<<<"A">>, KEY_FILE>>).t = "str"
    /\ walk(exported, <<<<"A">>, <<"B">>, KEY_FILE>>).t = "str"

(* --------------------- a tree imported and exported ------------------- *)

(* a key a mapping does not have *)
ABSENT == [t |-> "absent", v |-> 0]

(* the mapping with the given values at "file", "line", "col" and
   "timestamp", in this order, without the keys whose value is ABSENT *)
leaf_of(file, line, col, timestamp) ==
    PyDict((IF file = ABSENT THEN <<>> ELSE << <<KEY_FILE, file>> >>)
           \o (IF line = ABSENT THEN <<>> ELSE << <<KEY_LINE, line>> >>)
           \o (IF col = ABSENT THEN <<>> ELSE << <<KEY_COL, col>> >>)
           \o (IF timestamp = ABSENT THEN <<>>
               ELSE << <<KEY_TIMESTAMP, timestamp>> >>))

(* serialized entries as they are saved, and as a hand-written or
   half-written file can have them: a timestamp missing or None, a line
   None, a file that is no str *)
TreeLeaves ==
    { leaf_of(file, line, col, timestamp) :
          file \in {PyStr(<<"/a.yml">>), PyStr(<<>>), PyPath(<<"/b.yml">>)},
          line \in {ABSENT, None, PyInt(0), PyInt(5)},
          col \in {ABSENT, PyInt(7)},
          timestamp \in {ABSENT, None, PyFloat(0), PyInt(5)} }

(* The nested dicts of the round trip: each leaf alone, below one key and
   below two, beside another leaf; and trees with an empty internal dict,
   an empty key, a key with a separator, a key "file" at the top and below
   it, a leaf with a key of its own. *)
RoundTripTrees ==
    { << <<<<"A">>, leaf>> >> : leaf \in TreeLeaves }
    \cup { << <<<<"A">>, PyDict(<< <<<<"B">>, leaf>> >>)>> >> : leaf \in TreeLeaves }
    \cup { << <<<<"B">>, PyDict(<< <<<<"B">>, leaf>>, <<<<"A">>, LEAF_FULL>> >>)>>,
              <<<<"A">>, LEAF_FULL>> >> : leaf \in TreeLeaves }
    \cup { <<>>,
           << <<<<"A">>, PyDict(<<>>)>> >>,
           << <<<<"A">>, LEAF_FULL>>, <<<<"B">>, PyDict(<<>>)>> >>,
           << <<<<>>, PyDict(<< <<<<"A">>, LEAF_FULL>> >>)>> >>,
           << <<<<"A", SEP, "B">>, LEAF_FULL>> >>,
           << <<KEY_FILE, LEAF_FULL>>, <<<<"A">>, LEAF_FULL>> >>,
           << <<KEY_FILE, PyDict(<< <<KEY_LINE, LEAF_FULL>> >>)>> >>,
           << <<<<"A">>, PyDict(<< <<KEY_FILE, LEAF_FULL>> >>)>> >>,
           << <<<<"A">>, LEAF_WITH_CHILD>> >> }

(* new_tracker = ProvenanceTracker(); new_tracker.import_from_dict(nested_dict);
   exported = new_tracker.export_to_dict() *)
RoundTripTree(nested_dict) ==
    /\ LET done == import_from_dict(<<>>, nested_dict, <<>>, clock) IN
       /\ new_tracker' = done.pm
       /\ exported' = PyDict(export_to_dict(done.pm))
       /\ last' = [NoCall EXCEPT !.op = "tree_round_trip", !.tree = nested_dict,
                                 !.exc = done.exc]
    /\ UNCHANGED <<provenance_map, clock, recorded, pc, entry_vars, object_vars,
                   parser_vars, loader_vars, flux_vars>>

NextTrees ==
    \/ Tick
    \/ \E nested_dict \in RoundTripTrees : RoundTripTree(nested_dict)

SpecTrees == Init /\ [][NextTrees]_vars

(* the mapping is a serialized entry as C24 has it: exactly a str "file",
   a "timestamp" that is not None, and maybe a "line" and a "col" that are
   not None *)
is_leaf(d) ==
    /\ dict_keys(d) \subseteq {KEY_FILE, KEY_TIMESTAMP, KEY_LINE, KEY_COL}
    /\ dict_contains(d, KEY_FILE)
    /\ dict_getitem(d, KEY_FILE).t = "str"
    /\ dict_contains(d, KEY_TIMESTAMP)
    /\ \A k \in dict_keys(d) : dict_getitem(d, k) # None

(* the nested dict is a tree as C24 has it: keys that are not empty and
   have no separator, below them leaves or dicts that are not empty, have
   no "file" and are such trees themselves *)
RECURSIVE is_tree(_)
is_tree(d) ==
    \A i \in 1..Len(d) :
        LET key == d[i][1]
            value == d[i][2]
        IN /\ key # <<>>
           /\ \A n \in 1..Len(key) : key[n] # SEP
           /\ value.t = "dict"
           /\ IF dict_contains(value.v, KEY_FILE) THEN is_leaf(value.v)
              ELSE value.v # <<>> /\ is_tree(value.v)

(* C24: for a tree whose keys are non-empty strs without the separator,
   whose internal dicts are non-empty and have no "file", and whose leaves
   have exactly a str "file", a "timestamp" and maybe "line" and "col",
   none of them None: import_from_dict(tree) into a fresh tracker does not
   raise and export_to_dict() of that tracker == tree. *)
C24_TreeRoundTrip ==
    (last.op = "tree_round_trip" /\ is_tree(last.tree))
    => /\ last.exc = ""
       /\ py_eq(exported, PyDict(last.tree))

(* C24's case: two leaves, one with line 0 and no col, one with all four
   keys, came back in a tree of two levels *)
C24_Witness ==
    /\ last.op = "tree_round_trip"
    /\ is_tree(last.tree)
    /\ len(new_tracker) = 3
    /\ get(new_tracker, <<"B", SEP, "B">>).line = PyInt(0)
    /\ get(new_tracker, <<"B", SEP, "B">>).col = None
    /\ get(new_tracker, <<"B", SEP, "B">>).file = PyStr(<<>>)

(* ------------------------- the time of a track ------------------------ *)

(* C25: the entry of a path whose latest recording was a track call has
   the time.time() of that call as its timestamp, a re-recorded path the
   time of the later call, and no time after now; and the entry of the
   latest track call has a timestamp greater than or equal to that of
   every entry an earlier track call recorded. *)
C25_TrackStampsNow ==
    /\ \A p \in DOMAIN recorded :
           recorded[p].by = "track"
           => /\ get(provenance_map, p).timestamp = recorded[p].at
              /\ get(provenance_map, p).timestamp.v <= clock
    /\ last.op = "track"
       => \A p \in DOMAIN recorded :
              recorded[p].by = "track"
              => get(provenance_map, last.path).timestamp.v
                     >= get(provenance_map, p).timestamp.v

(* C25's case: a track call at time 1 replaced the entry of its path, and
   another path has the entry of a track call at time 0 *)
C25_Witness ==
    /\ last.op = "track"
    /\ last.prev # None
    /\ get(provenance_map, last.path).timestamp = PyFloat(1)
    /\ \E p \in DOMAIN recorded :
           /\ recorded[p].by = "track"
           /\ get(provenance_map, p).timestamp = PyFloat(0)

(* -------------------------------- flux -------------------------------- *)
(* autosubmit/platforms/wrappers/flux_yaml_generator.py: FluxYAML, the
   builder of a Flux jobspec (resources, tasks, attributes), and
   FluxYAMLGenerator.generate_template, which fills one from the job's
   parameters. *)

(* the dict add_slot makes for the nodes *)
node_of(num_nodes, exclusive) ==
    PyDict(<< <<<<"type">>, PyStr(<<"node">>)>>, <<<<"count">>, PyInt(num_nodes)>>,
              <<<<"exclusive">>, PyBool(exclusive)>> >>)

(* the dict add_slot makes for the cores *)
core_of(num_cores) ==
    PyDict(<< <<<<"type">>, PyStr(<<"core">>)>>, <<<<"count">>, PyInt(num_cores)>> >>)

(* the dict add_slot makes for the slot, with_list its 'with' *)
slot_of(label, nslots, with_list) ==
    PyDict(<< <<<<"type">>, PyStr(<<"slot">>)>>, <<<<"label">>, PyStr(label)>>,
              <<<<"count">>, PyInt(nslots)>>, <<<<"with">>, PyList(with_list)>> >>)

(* an add_slot that returns len(self.resources) *)
add_slot_returns_len(self_resources, label, nslots, num_nodes, num_cores, exclusive, mem_per_node_gb, mem_per_core_gb) ==
    IF num_nodes = 0 /\ num_cores = 0
    THEN [resources |-> self_resources, result |-> Raised("ValueError")]
    ELSE IF num_nodes # 0 /\ exclusive
    THEN [resources |-> self_resources, result |-> Raised("ValueError")]
    ELSE IF \/ num_nodes > 0 /\ mem_per_node_gb > 0
            \/ num_cores > 0 /\ mem_per_core_gb > 0
            \/ num_nodes > 0 /\ num_cores > 0
    THEN [resources |-> self_resources, result |-> Raised("KeyError")]
    ELSE [resources |-> Append(self_resources,
              slot_of(label, nslots,
                      IF num_nodes > 0 THEN <<node_of(num_nodes, exclusive)>>
                      ELSE IF num_cores > 0 THEN <<core_of(num_cores)>>
                      ELSE <<>>)),
          result |-> Returned(PyInt(Len(self_resources) + 1))]

(* FluxYAML.add_slot: [resources, result], self.resources afterwards and
   what the call did.  node and core have no 'with' key, so node['with']
   and core['with'] raise KeyError; nothing is appended before the last
   statement but one. *)
add_slot(self_resources, label, nslots, num_nodes, num_cores, exclusive, mem_per_node_gb, mem_per_core_gb) ==
    IF num_nodes = 0 /\ num_cores = 0
    THEN [resources |-> self_resources, result |-> Raised("ValueError")]
    ELSE IF num_nodes # 0 /\ exclusive
    THEN [resources |-> self_resources, result |-> Raised("ValueError")]
    ELSE IF num_nodes > 0 /\ mem_per_node_gb > 0
    THEN [resources |-> self_resources, result |-> Raised("KeyError")]
    ELSE IF num_cores > 0 /\ mem_per_core_gb > 0
    THEN [resources |-> self_resources, result |-> Raised("KeyError")]
    ELSE IF num_nodes > 0 /\ num_cores > 0
    THEN [resources |-> self_resources, result |-> Raised("KeyError")]
    ELSE LET with_list ==
                 IF num_nodes > 0 THEN <<node_of(num_nodes, exclusive)>>
                 ELSE IF num_cores > 0 THEN <<core_of(num_cores)>>
                 ELSE <<>>
             appended == Append(self_resources, slot_of(label, nslots, with_list))
         IN [resources |-> appended,
             result |-> Returned(PyInt(Len(appended) - 1))]

(* the dict add_task makes for the task *)
task_of(slot_label, count) ==
    PyDict(<< <<<<"command">>, PyList(<<PyStr(<<"{{tmpdir}}/script">>)>>)>>,
              <<<<"slot">>, PyStr(slot_label)>>, <<<<"count">>, count>> >>)

(* FluxYAML.add_task: [tasks, result], self.tasks afterwards and what the
   call did.  With no count above 0 and not both 0, count is never
   assigned and reading it raises UnboundLocalError. *)
add_task(self_tasks, slot_label, count_per_slot, count_per_node) ==
    IF count_per_slot > 0 /\ count_per_node > 0
    THEN [tasks |-> self_tasks, result |-> Raised("ValueError")]
    ELSE IF count_per_slot = 0 /\ count_per_node = 0
    THEN [tasks |-> self_tasks, result |-> Raised("ValueError")]
    ELSE IF count_per_slot > 0
    THEN LET appended == Append(self_tasks, task_of(slot_label,
                 PyDict(<< <<<<"per_slot">>, PyInt(count_per_slot)>> >>)))
         IN [tasks |-> appended, result |-> Returned(PyInt(Len(appended) - 1))]
    ELSE IF count_per_node > 0
    THEN LET appended == Append(self_tasks, task_of(slot_label,
                 PyDict(<< <<<<"per_node">>, PyInt(count_per_node)>> >>)))
         IN [tasks |-> appended, result |-> Returned(PyInt(Len(appended) - 1))]
    ELSE [tasks |-> self_tasks, result |-> Raised("UnboundLocalError")]

(* bool(x) of a parameter: '' and 0 are false *)
truthy(x) == x # PyStr(<<>>) /\ x # PyInt(0) /\ x # None

(* int(x) of a parameter: [exc, val]; a str of digits gives its number, an
   int itself, any other str raises ValueError *)
int_of(x) ==
    IF x.t = "int" THEN [exc |-> "", val |-> x.v]
    ELSE IF x = PyStr(<<"0">>) THEN [exc |-> "", val |-> 0]
    ELSE IF x = PyStr(<<"2">>) THEN [exc |-> "", val |-> 2]
    ELSE IF x = PyStr(<<"1", "0">>) THEN [exc |-> "", val |-> 10]
    ELSE [exc |-> "ValueError", val |-> 0]

(* int(parameters[name]) if parameters[name] else 0 *)
int_or_zero(x) == IF truthy(x) THEN int_of(x) ELSE [exc |-> "", val |-> 0]

(* FluxYAMLGenerator.generate_template(template) with the parameters
   PROCESSORS, NODES and THREADS as given and the others well-formed: what
   the call did, a str made of the header and the dump of the jobspec
   when it returned *)
generate_template(processors, nodes, threads) ==
    LET nslots == int_or_zero(processors)
        num_nodes == int_or_zero(nodes)
        num_cores == int_or_zero(threads)
        slot == add_slot(<<>>, <<"task">>, nslots.val, num_nodes.val,
                         num_cores.val, FALSE, 0, 0)
        task == add_task(<<>>, <<"task">>, 1, 0)
    IN IF nslots.exc # "" THEN Raised(nslots.exc)
       ELSE IF num_nodes.exc # "" THEN Raised(num_nodes.exc)
       ELSE IF num_cores.exc # "" THEN Raised(num_cores.exc)
       ELSE IF slot.result.t = "raise" THEN slot.result
       ELSE IF task.result.t = "raise" THEN task.result
       ELSE Returned([t |-> "str",
                      v |-> [header |-> "EXPERIMENT",
                             resources |-> slot.resources,
                             tasks |-> task.tasks,
                             version |-> 1]])

(* the counts given to add_slot and add_task, and the parameters given to
   generate_template *)
SlotCounts == {-1, 0, 2}
MemoryCounts == {0, 1}
TaskCounts == {-1, 0, 1}
ParameterValues == { PyStr(<<>>), PyStr(<<"0">>), PyStr(<<"2">>), PyInt(2),
                     PyStr(<<"two">>) }

(* job_yaml.add_slot(num_nodes=..., num_cores=..., exclusive=...,
   mem_per_node_gb=..., mem_per_core_gb=...) *)
AddSlot(num_nodes, num_cores, exclusive, mem_per_node_gb, mem_per_core_gb) ==
    /\ Len(resources) < MaxEntries
    /\ LET done == add_slot(resources, <<"task">>, 1, num_nodes, num_cores,
                            exclusive, mem_per_node_gb, mem_per_core_gb) IN
       /\ resources' = done.resources
       /\ f_last' = [op |-> "add_slot",
                     args |-> [num_nodes |-> num_nodes, num_cores |-> num_cores,
                               exclusive |-> exclusive,
                               mem_per_node_gb |-> mem_per_node_gb,
                               mem_per_core_gb |-> mem_per_core_gb],
                     result |-> done.result,
                     resources |-> resources, tasks |-> tasks]
    /\ UNCHANGED <<tasks, clock, tracker_vars, entry_vars, object_vars,
                   parser_vars, loader_vars>>

(* job_yaml.add_task(count_per_slot=..., count_per_node=...) *)
AddTask(count_per_slot, count_per_node) ==
    /\ Len(tasks) < MaxEntries
    /\ LET done == add_task(tasks, <<"task">>, count_per_slot, count_per_node) IN
       /\ tasks' = done.tasks
       /\ f_last' = [op |-> "add_task",
                     args |-> [count_per_slot |-> count_per_slot,
                               count_per_node |-> count_per_node],
                     result |-> done.result,
                     resources |-> resources, tasks |-> tasks]
    /\ UNCHANGED <<resources, clock, tracker_vars, entry_vars, object_vars,
                   parser_vars, loader_vars>>

(* FluxYAMLGenerator(job, parameters).generate_template(template): it
   fills a FluxYAML of its own *)
GenerateTemplate(processors, nodes, threads) ==
    /\ f_last' = [op |-> "generate_template",
                  args |-> [processors |-> processors, nodes |-> nodes,
                            threads |-> threads],
                  result |-> generate_template(processors, nodes, threads),
                  resources |-> resources, tasks |-> tasks]
    /\ UNCHANGED <<resources, tasks, clock, tracker_vars, entry_vars,
                   object_vars, parser_vars, loader_vars>>

(* job_yaml = FluxYAML() *)
NewFluxYAML ==
    /\ f_last # NoFluxCall
    /\ resources' = <<>>
    /\ tasks' = <<>>
    /\ f_last' = NoFluxCall
    /\ UNCHANGED <<clock, tracker_vars, entry_vars, object_vars, parser_vars,
                   loader_vars>>

NextFlux ==
    \/ \E num_nodes \in SlotCounts, num_cores \in SlotCounts,
          exclusive \in BOOLEAN, mem_per_node_gb \in MemoryCounts,
          mem_per_core_gb \in MemoryCounts :
           AddSlot(num_nodes, num_cores, exclusive, mem_per_node_gb,
                   mem_per_core_gb)
    \/ \E count_per_slot \in TaskCounts, count_per_node \in TaskCounts :
           AddTask(count_per_slot, count_per_node)
    \/ \E processors \in {PyStr(<<"1", "0">>), PyStr(<<>>)},
          nodes \in ParameterValues, threads \in ParameterValues :
           GenerateTemplate(processors, nodes, threads)
    \/ NewFluxYAML

SpecFlux == Init /\ [][NextFlux]_vars

(* ----------------------------- flux claims ---------------------------- *)

(* C26: add_slot with num_nodes > 0, num_cores > 0, exclusive false and no
   memory asked for returns, having appended one slot whose 'with' holds
   the node, whose 'with' holds the core; and generate_template with NODES
   and THREADS both above 0 returns a str. *)
C26_NodesAndCoresAccepted ==
    /\ (/\ f_last.op = "add_slot"
        /\ f_last.args.num_nodes > 0
        /\ f_last.args.num_cores > 0
        /\ ~f_last.args.exclusive
        /\ f_last.args.mem_per_node_gb = 0
        /\ f_last.args.mem_per_core_gb = 0)
       => /\ f_last.result.t = "return"
          /\ Len(resources) = Len(f_last.resources) + 1
          /\ LET slot == resources[Len(resources)]
                 node == dict_get(slot.v, <<"with">>).v[1]
             IN /\ dict_get(node.v, <<"type">>) = PyStr(<<"node">>)
                /\ dict_get(node.v, <<"with">>)
                       = PyList(<<core_of(f_last.args.num_cores)>>)
    /\ (/\ f_last.op = "generate_template"
        /\ int_or_zero(f_last.args.nodes).exc = ""
        /\ int_or_zero(f_last.args.nodes).val > 0
        /\ int_or_zero(f_last.args.threads).exc = ""
        /\ int_or_zero(f_last.args.threads).val > 0)
       => /\ f_last.result.t = "return"
          /\ f_last.result.v.t = "str"

(* exactly one of the two counts is above 0 *)
one_positive(count_per_slot, count_per_node) ==
    (count_per_slot > 0) # (count_per_node > 0)

(* C27: add_task raises ValueError and appends no task unless exactly one
   of count_per_slot and count_per_node is above 0: with both 0, with both
   above 0, and with a count below 0 and the other not above 0. *)
C27_AddTaskValueError ==
    (/\ f_last.op = "add_task"
     /\ ~one_positive(f_last.args.count_per_slot, f_last.args.count_per_node))
    => /\ f_last.result = Raised("ValueError")
       /\ tasks = f_last.tasks

(* C28: add_slot with exclusive=True and num_nodes > 0 returns, having
   appended a slot whose node has 'exclusive' true; and an add_slot with
   exclusive=True that has resources to add raises ValueError only when
   no node is asked for (num_nodes not above 0). *)
C28_ExclusiveOnlyForNodes ==
    (f_last.op = "add_slot" /\ f_last.args.exclusive)
    => /\ (/\ f_last.args.num_nodes > 0
           /\ f_last.args.num_cores = 0
           /\ f_last.args.mem_per_node_gb = 0)
          => /\ f_last.result.t = "return"
             /\ Len(resources) = Len(f_last.resources) + 1
             /\ dict_get(resources[Len(resources)].v, <<"with">>)
                    = PyList(<<node_of(f_last.args.num_nodes, TRUE)>>)
       /\ (/\ f_last.result = Raised("ValueError")
           /\ ~(f_last.args.num_nodes = 0 /\ f_last.args.num_cores = 0))
          => ~(f_last.args.num_nodes > 0)

(* C29: an add_slot that returned left resources as it found it with one
   element more at the end, the slot of this call, and left tasks as it
   was, and its result is the index of that element; likewise add_task
   with tasks and resources; and a call that raised left both lists as it
   found them.  So after any sequence of calls the lists have one element
   for each call that returned, in the order of the calls. *)
C29_OneElementPerReturn ==
    /\ (f_last.op = "add_slot" /\ f_last.result.t = "return")
       => /\ Len(resources) = Len(f_last.resources) + 1
          /\ SubSeq(resources, 1, Len(f_last.resources)) = f_last.resources
          /\ dict_get(resources[Len(resources)].v, <<"type">>) = PyStr(<<"slot">>)
          /\ tasks = f_last.tasks
          /\ f_last.result.v = PyInt(Len(resources) - 1)
    /\ (f_last.op = "add_task" /\ f_last.result.t = "return")
       => /\ Len(tasks) = Len(f_last.tasks) + 1
          /\ SubSeq(tasks, 1, Len(f_last.tasks)) = f_last.tasks
          /\ dict_get(tasks[Len(tasks)].v, <<"count">>)
                 = PyDict(<< <<IF f_last.args.count_per_slot > 0
                               THEN <<"per_slot">> ELSE <<"per_node">>,
                               PyInt(1)>> >>)
          /\ resources = f_last.resources
          /\ f_last.result.v = PyInt(Len(tasks) - 1)
    /\ (f_last.op \in {"add_slot", "add_task"} /\ f_last.result.t = "raise")
       => /\ resources = f_last.resources
          /\ tasks = f_last.tasks

(* C29's case: a second add_slot returned 1 after an add_slot that raised
   KeyError, with a task in tasks *)
C29_Witness ==
    /\ f_last.op = "add_slot"
    /\ f_last.result = Returned(PyInt(1))
    /\ Len(resources) = 2
    /\ resources[1] # resources[2]
    /\ Len(tasks) = 1

(* ---------------------- parser claims, continued ---------------------- *)

(* the latest load went through the yaml-provenance path: load_yaml and
   the registration of the reducers both returned *)
through_provenance ==
    /\ loaded # NoLoad
    /\ loaded.load_yaml # None
    /\ loaded.load_yaml.t = "return"
    /\ loaded.reducers # None
    /\ loaded.reducers.t = "return"

(* C30: after a load that went through the yaml-provenance path (and any
   registration called again after it), every class in _wrapper_registry,
   the classes load_yaml made during that load among them, has a
   __reduce__ that gives its builtin base and has _pickle_patched; and no
   class, in the registry or imported by name, ever has its __reduce__
   assigned a second time. *)
C30_RegistryPatchedOnce ==
    /\ through_provenance
       => \A n \in DOMAIN wrapper_registry :
              /\ wrapper_registry[n].pickle_patched
              /\ wrapper_registry[n].reduce
                     = Reducer(get_builtin_base(wrapper_registry[n]))
    /\ \A n \in DOMAIN wrapper_registry :
           /\ wrapper_registry[n].patches <= 1
           /\ wrapper_registry[n].pickle_patched <=> wrapper_registry[n].patches = 1
    /\ \A n \in DOMAIN wrapper_classes :
           /\ wrapper_classes[n].patches <= 1
           /\ wrapper_classes[n].pickle_patched <=> wrapper_classes[n].patches = 1

(* C30's case: a load through the yaml-provenance path returned with three
   classes in the registry, each patched once: a str wrapper to str, a
   ScalarInt wrapper to int, a date wrapper to date *)
C30_Witness ==
    /\ through_provenance
    /\ loaded.result = Returned(WITH_PROVENANCE)
    /\ DOMAIN wrapper_registry = DOMAIN WrapperTypes
    /\ wrapper_registry["ScalarIntWithProvenance"].reduce = Reducer("int")
    /\ wrapper_registry["DateWithProvenance"].reduce = Reducer("date")
    /\ \A n \in DOMAIN wrapper_registry : wrapper_registry[n].patches = 1

====
